---------------------------- MODULE Spec2Model ----------------------------
(***************************************************************************)
(* Model of the ledger ingestion core of subTracker: the batch commit run  *)
(* (process_transactions), the upload and verify handlers that call it,    *)
(* the manual writers of the balance (create_expense_transaction,          *)
(* update_account_balance, create_transaction), the duplicate / existing   *)
(* validators, the ledger text parser (parse_ledger_entries) and the       *)
(* CategoryMatcher.                                                        *)
(* Balances and the amounts of the commit runs are integers counted in     *)
(* the smallest currency unit (the DECIMAL columns of the store hold exact *)
(* values); the parser counts amounts in hundredths.                       *)
(***************************************************************************)
EXTENDS Integers, Sequences, FiniteSets, TLC

(***************************************************************************)
(* Bounds of the model.                                                    *)
(***************************************************************************)
MaxAmount == 2
MaxBatch == 3
MaxBalance == 2

(***************************************************************************)
(* Value spaces.                                                           *)
(***************************************************************************)
Writers == {"w1", "w2"}
Users == {"u1", "u2"}
Uploader == "u1"
Dates == {"2024-01-15", "2024-01-16"}
Descs == {"rent"}
Types == {"income", "expense"}
\* The parser emits float(amount text): negative values included.
Amounts == {-1} \cup (1..MaxAmount)
NoLock == "none"
NoValue == 0 - 1000
NoResponse == [returned |-> "nothing"]
NoResult == [returned |-> FALSE]
NoQuery == [asked |-> FALSE]
Manual == "manual"
\* Descriptions of the validator's batches: free text, "_" included.
ValDescs == {"rent", "1.0_rent"}
ValTx == [type : Types, amount : 1..MaxAmount, date : Dates, description : ValDescs]

Tx == [type : Types, amount : Amounts, date : Dates, description : Descs]
\* The batches of the commit runs: every type and amount, on one date.
CommitTx == {t \in Tx : t.date = "2024-01-15"}

RECURSIVE SeqsUpTo(_, _)
SeqsUpTo(S, n) ==
    IF n = 0 THEN {<<>>}
    ELSE LET shorter == SeqsUpTo(S, n - 1)
         IN  shorter \cup {Append(s, x) : s \in {t \in shorter : Len(t) = n - 1}, x \in S}

Abs(n) == IF n < 0 THEN -n ELSE n

VARIABLES
    balance,          \* bank_accounts.current_balance, committed value
    txrows,           \* transactions table, committed rows in insert order
    lockHolder,       \* holder of the exclusive lock on the bank_accounts row
    parsed,           \* per writer: the list parse_ledger_entries returned
    pc,               \* per writer: position in upload / process_transactions
    transactions,     \* per writer: the argument of process_transactions
    user_info,        \* per writer: current_balance as read by the first SELECT
    current_balance,  \* per writer: the local running balance
    idx,              \* per writer: position of the for loop in the batch
    results,          \* per writer: the results dict
    pendingRows,      \* per writer: rows inserted in the open, uncommitted unit
    pendingBalance,   \* per writer: balance written in the open unit
    storeErrors,      \* per writer: statements of the run that raised a store error
    verify_response,  \* what verify_ledger_file returned for the parsed list of w1
    initBalance,      \* history: the committed balance before any run
    initRows,         \* history: the committed rows before any run
    epc,              \* create_expense_transaction: position of the handler
    expense,          \* create_expense_transaction: the requested amount
    bank_account,     \* create_expense_transaction: balance read FOR UPDATE
    vbatch,           \* argument of find_repeated_transactions
    vresult,          \* what find_repeated_transactions returned
    vquery,           \* a check_existing_transactions call and its answer
    lines,            \* parse_ledger_entries: ledger_text.splitlines()
    lineNo,           \* parse_ledger_entries: position of the for loop
    current_transaction, \* parse_ledger_entries: the open header
    current_accounts, \* parse_ledger_entries: accounts of the open header
    current_amount,   \* parse_ledger_entries: last amount of the open header
    ptransactions,    \* parse_ledger_entries: the local list `transactions`
    ppc,              \* parse_ledger_entries: idle, loop, returned or raised
    categories,       \* CategoryMatcher.categories, in id order
    category_keywords, \* CategoryMatcher.category_keywords
    mcalls            \* history: the match_category calls and their results

commitVars == <<balance, txrows, lockHolder, parsed, pc, transactions, user_info,
                current_balance, idx, results, pendingRows, pendingBalance,
                storeErrors, verify_response,
                   initBalance, initRows>>

expenseVars == <<epc, expense, bank_account>>

validVars == <<vbatch, vresult, vquery>>

parseVars == <<lines, lineNo, current_transaction, current_accounts, current_amount,
               ptransactions, ppc>>

matchVars == <<categories, category_keywords, mcalls>>

vars == <<commitVars, expenseVars, validVars, parseVars, matchVars>>

NoTransaction == [open |-> FALSE]
\* current_amount = None
NoAmount == [set |-> FALSE]

\* No parse call and no matcher in the specifications of the commit runs.
InitParser ==
    /\ lines = <<>>
    /\ lineNo = 0
    /\ current_transaction = NoTransaction
    /\ current_accounts = <<>>
    /\ current_amount = NoAmount
    /\ ptransactions = <<>>
    /\ ppc = "idle"

InitMatcher ==
    /\ categories = <<>>
    /\ category_keywords = <<>>
    /\ mcalls = <<>>

(***************************************************************************)
(* Text.  A Python str is a sequence of one-character strings; a character *)
(* outside ASCII is written by its code point ("U+20B9" is the rupee       *)
(* sign).  The operators below are the str methods the parser and the      *)
(* matcher call.                                                           *)
(***************************************************************************)
Digits == <<"0", "1", "2", "3", "4", "5", "6", "7", "8", "9">>
UpperCase == <<"A", "B", "C", "D", "E", "F", "G", "H", "I", "J", "K", "L", "M",
               "N", "O", "P", "Q", "R", "S", "T", "U", "V", "W", "X", "Y", "Z">>
LowerCase == <<"a", "b", "c", "d", "e", "f", "g", "h", "i", "j", "k", "l", "m",
               "n", "o", "p", "q", "r", "s", "t", "u", "v", "w", "x", "y", "z">>
Whitespace == {" ", "\t"}

IsDigit(c) == \E d \in 1..10 : Digits[d] = c
DigitVal(c) == (CHOOSE d \in 1..10 : Digits[d] = c) - 1

\* str.lower()
LowerChar(c) ==
    IF \E k \in 1..26 : UpperCase[k] = c
    THEN LowerCase[CHOOSE k \in 1..26 : UpperCase[k] = c]
    ELSE c
Lower(s) == [k \in 1..Len(s) |-> LowerChar(s[k])]

\* s[i:i+len(p)] == p
MatchAt(s, p, i) ==
    /\ i + Len(p) - 1 <= Len(s)
    /\ \A k \in 1..Len(p) : s[i + k - 1] = p[k]

\* p in s
Contains(s, p) == \E i \in 1..(Len(s) + 1) : MatchAt(s, p, i)

\* str.strip()
RECURSIVE LStrip(_)
LStrip(s) == IF s # <<>> /\ s[1] \in Whitespace THEN LStrip(Tail(s)) ELSE s
RECURSIVE RStrip(_)
RStrip(s) ==
    IF s # <<>> /\ s[Len(s)] \in Whitespace THEN RStrip(SubSeq(s, 1, Len(s) - 1))
    ELSE s
Strip(s) == RStrip(LStrip(s))

\* str.split(sep): cut at every occurrence of sep, left to right
RECURSIVE SplitFrom(_, _, _, _, _)
SplitFrom(s, sep, i, cur, acc) ==
    IF i > Len(s) THEN Append(acc, cur)
    ELSE IF MatchAt(s, sep, i)
         THEN SplitFrom(s, sep, i + Len(sep), <<>>, Append(acc, cur))
         ELSE SplitFrom(s, sep, i + 1, Append(cur, s[i]), acc)
Split(s, sep) == SplitFrom(s, sep, 1, <<>>, <<>>)

\* str.replace(old, new)
RECURSIVE ReplaceFrom(_, _, _, _, _)
ReplaceFrom(s, old, new, i, acc) ==
    IF i > Len(s) THEN acc
    ELSE IF MatchAt(s, old, i)
         THEN ReplaceFrom(s, old, new, i + Len(old), acc \o new)
         ELSE ReplaceFrom(s, old, new, i + 1, Append(acc, s[i]))
Replace(s, old, new) == ReplaceFrom(s, old, new, 1, <<>>)

\* The characters of s as one string value.
RECURSIVE Join(_)
Join(s) == IF s = <<>> THEN "" ELSE s[1] \o Join(Tail(s))

RECURSIVE DigitsVal(_, _)
DigitsVal(s, acc) ==
    IF s = <<>> THEN acc ELSE DigitsVal(Tail(s), 10 * acc + DigitVal(s[1]))

AllDigits(s) == \A k \in 1..Len(s) : IsDigit(s[k])

EmptyResults ==
    [successful |-> <<>>, failed |-> <<>>,
     total_processed |-> 0, total_success |-> 0, total_failed |-> 0]

\* Mutant: the sign of an expense is not applied.
SignedAmountUnsigned(tx) == tx.amount

\* ledger_parser.py:72  amount = tx_amount if income else -tx_amount
SignedAmount(tx) == IF tx.type = "income" THEN tx.amount ELSE -tx.amount

\* Mutant: the check looks at the balance before the expense, not after it.
InsufficientBalanceBefore(tx, new_balance) ==
    tx.type = "expense" /\ new_balance + tx.amount < 0

\* ledger_parser.py:76  the sufficiency check of the commit loop
InsufficientBalance(tx, new_balance) == tx.type = "expense" /\ new_balance < 0

\* ledger_parser.py:83-106  the row the INSERT writes
ImportRow(tx) ==
    [user |-> Uploader, date |-> tx.date, description |-> tx.description,
     amount |-> SignedAmount(tx), type |-> tx.type, source |-> "import"]

(***************************************************************************)
(* upload_ledger_file: the parsed list goes to process_transactions as it  *)
(* is; no validator runs in between.                                       *)
(***************************************************************************)
UploadLedgerFile(w) ==
    /\ pc[w] = "idle"
    /\ transactions' = [transactions EXCEPT ![w] = parsed[w]]
    /\ results' = [results EXCEPT ![w] = EmptyResults]
    /\ pc' = [pc EXCEPT ![w] = "called"]
    /\ UNCHANGED <<balance, txrows, lockHolder, parsed, user_info, current_balance,
                   idx, pendingRows, pendingBalance, storeErrors, verify_response,
                   initBalance, initRows>>
    /\ UNCHANGED <<expenseVars, validVars, parseVars, matchVars>>

\* Mutant: the handler raises without rolling back; the rows inserted so
\* far are committed when the connection is returned.
FatalWithoutRollback(w, stmt) ==
    /\ txrows' = txrows \o pendingRows[w]
    /\ pendingRows' = [pendingRows EXCEPT ![w] = <<>>]
    /\ pendingBalance' = [pendingBalance EXCEPT ![w] = NoValue]
    /\ lockHolder' = IF lockHolder = w THEN NoLock ELSE lockHolder
    /\ storeErrors' = [storeErrors EXCEPT ![w] = @ \cup {stmt}]
    /\ pc' = [pc EXCEPT ![w] = "fatal"]
    /\ UNCHANGED balance

\* The outer except handler: ROLLBACK, then the error is raised as HTTP 500.
Fatal(w, stmt) ==
    /\ pendingRows' = [pendingRows EXCEPT ![w] = <<>>]
    /\ pendingBalance' = [pendingBalance EXCEPT ![w] = NoValue]
    /\ lockHolder' = IF lockHolder = w THEN NoLock ELSE lockHolder
    /\ storeErrors' = [storeErrors EXCEPT ![w] = @ \cup {stmt}]
    /\ pc' = [pc EXCEPT ![w] = "fatal"]
    /\ UNCHANGED <<balance, txrows>>

\* The first SELECT: a plain read of the committed balance, no FOR UPDATE,
\* issued before START TRANSACTION.
SelectUserInfo(w) ==
    /\ pc[w] = "called"
    /\ \/ /\ user_info' = [user_info EXCEPT ![w] = balance]
          /\ pc' = [pc EXCEPT ![w] = "selected"]
          /\ UNCHANGED <<balance, txrows, pendingRows, pendingBalance, lockHolder,
                         storeErrors>>
       \/ /\ Fatal(w, "select")
          /\ UNCHANGED user_info
    /\ UNCHANGED <<parsed, transactions, current_balance, idx, results,
                   verify_response,
                   initBalance, initRows>>
    /\ UNCHANGED <<expenseVars, validVars, parseVars, matchVars>>

StartTransaction(w) ==
    /\ pc[w] = "selected"
    /\ \/ /\ current_balance' = [current_balance EXCEPT ![w] = user_info[w]]
          /\ idx' = [idx EXCEPT ![w] = 1]
          /\ pc' = [pc EXCEPT ![w] = "loop"]
          /\ UNCHANGED <<balance, txrows, pendingRows, pendingBalance, lockHolder,
                         storeErrors>>
       \/ /\ Fatal(w, "start")
          /\ UNCHANGED <<current_balance, idx>>
    /\ UNCHANGED <<parsed, transactions, user_info, results, verify_response,
                   initBalance, initRows>>
    /\ UNCHANGED <<expenseVars, validVars, parseVars, matchVars>>

\* Mutant: a failed transaction is listed but not counted as failed.
RecordFailedUncounted(r, i, tx, kind, required, available) ==
    [r EXCEPT !.failed = Append(@, [index |-> i, tx |-> tx, kind |-> kind,
                                    required |-> required, available |-> available]),
              !.total_processed = @ + 1]

\* results after the except branch of the loop body (lines 117-122)
RecordFailed(r, i, tx, kind, required, available) ==
    [r EXCEPT !.failed = Append(@, [index |-> i, tx |-> tx, kind |-> kind,
                                    required |-> required, available |-> available]),
              !.total_failed = @ + 1,
              !.total_processed = @ + 1]

\* results after the try branch of the loop body (lines 111-115)
RecordSuccess(r, i, tx) ==
    [r EXCEPT !.successful = Append(@, [index |-> i, tx |-> tx,
                                        processed_amount |-> SignedAmount(tx)]),
              !.total_success = @ + 1,
              !.total_processed = @ + 1]

\* Mutant: a failed transaction ends the loop.
NextPositionStopsOnFailure(i, n, failed) == IF failed THEN n + 1 ELSE i + 1

\* The for loop goes on to the next transaction after the try branch and
\* after the except branch alike (lines 64, 117-123); n is the batch length.
NextPosition(i, n, failed) == i + 1

\* Mutant: every transaction is checked against the starting balance, the
\* effects of the earlier transactions of the batch are not seen.
NewBalanceFromStart(w, tx) == user_info[w] + SignedAmount(tx)

\* ledger_parser.py:73  new_balance = current_balance + amount
NewBalance(w, tx) == current_balance[w] + SignedAmount(tx)

\* One iteration of the for loop (lines 64-123).
ProcessTx(w) ==
    /\ pc[w] = "loop"
    /\ idx[w] <= Len(transactions[w])
    /\ LET tx == transactions[w][idx[w]]
           new_balance == NewBalance(w, tx)
       IN  IF InsufficientBalance(tx, new_balance)
           THEN /\ results' = [results EXCEPT ![w] =
                       RecordFailed(@, idx[w], tx, "insufficient",
                                    tx.amount, current_balance[w])]
                /\ idx' = [idx EXCEPT ![w] = NextPosition(@, Len(transactions[w]), TRUE)]
                /\ UNCHANGED <<current_balance, pendingRows, storeErrors>>
           ELSE \/ /\ pendingRows' = [pendingRows EXCEPT ![w] = Append(@, ImportRow(tx))]
                   /\ current_balance' = [current_balance EXCEPT ![w] = new_balance]
                   /\ results' = [results EXCEPT ![w] =
                          RecordSuccess(@, idx[w], tx)]
                   /\ idx' = [idx EXCEPT ![w] =
                          NextPosition(@, Len(transactions[w]), FALSE)]
                   /\ UNCHANGED storeErrors
                \* the INSERT raises: caught by the loop's own except Exception
                \/ /\ results' = [results EXCEPT ![w] =
                          RecordFailed(@, idx[w], tx, "store", 0, 0)]
                   /\ storeErrors' = [storeErrors EXCEPT ![w] = @ \cup {"insert"}]
                   /\ idx' = [idx EXCEPT ![w] =
                          NextPosition(@, Len(transactions[w]), TRUE)]
                   /\ UNCHANGED <<current_balance, pendingRows>>
    /\ UNCHANGED <<balance, txrows, lockHolder, parsed, pc, transactions, user_info,
                   pendingBalance, verify_response,
                   initBalance, initRows>>
    /\ UNCHANGED <<expenseVars, validVars, parseVars, matchVars>>

\* Mutant: the UPDATE writes the balance the run started from.
WrittenBalanceStale(w) == user_info[w]

\* ledger_parser.py:132  the value bound to SET current_balance = %s
WrittenBalance(w) == current_balance[w]

\* Lines 126-132: the UPDATE of the balance row, run only when something
\* succeeded. It writes the absolute running balance and takes the row lock.
UpdateBalance(w) ==
    /\ pc[w] = "loop"
    /\ idx[w] > Len(transactions[w])
    /\ results[w].successful # <<>>
    /\ lockHolder \in {NoLock, w}
    /\ \/ /\ pendingBalance' = [pendingBalance EXCEPT ![w] = WrittenBalance(w)]
          /\ lockHolder' = w
          /\ pc' = [pc EXCEPT ![w] = "updated"]
          /\ UNCHANGED <<balance, txrows, pendingRows, storeErrors>>
       \/ Fatal(w, "update")
    /\ UNCHANGED <<parsed, transactions, user_info, current_balance, idx, results,
                   verify_response,
                   initBalance, initRows>>
    /\ UNCHANGED <<expenseVars, validVars, parseVars, matchVars>>

\* Mutant: the rows become visible without the balance written in the unit.
CommitRowsOnly(w) ==
    /\ pc[w] = "updated"
    /\ results[w].total_success > 0
    /\ txrows' = txrows \o pendingRows[w]
    /\ pendingRows' = [pendingRows EXCEPT ![w] = <<>>]
    /\ pendingBalance' = [pendingBalance EXCEPT ![w] = NoValue]
    /\ lockHolder' = NoLock
    /\ pc' = [pc EXCEPT ![w] = "done"]
    /\ UNCHANGED <<balance, parsed, transactions, user_info, current_balance, idx,
                   results, storeErrors, verify_response, initBalance, initRows>>
    /\ UNCHANGED <<expenseVars, validVars, parseVars, matchVars>>

\* Lines 135-137: COMMIT makes the inserted rows and the written balance visible.
Commit(w) ==
    /\ pc[w] = "updated"
    /\ results[w].total_success > 0
    /\ balance' = pendingBalance[w]
    /\ txrows' = txrows \o pendingRows[w]
    /\ pendingRows' = [pendingRows EXCEPT ![w] = <<>>]
    /\ pendingBalance' = [pendingBalance EXCEPT ![w] = NoValue]
    /\ lockHolder' = NoLock
    /\ pc' = [pc EXCEPT ![w] = "done"]
    /\ UNCHANGED <<parsed, transactions, user_info, current_balance, idx, results,
                   storeErrors, verify_response,
                   initBalance, initRows>>
    /\ UNCHANGED <<expenseVars, validVars, parseVars, matchVars>>

\* Mutant: a batch in which nothing succeeded is answered with an error
\* instead of its results.
RollbackRaises(w) ==
    /\ pc[w] = "loop"
    /\ idx[w] > Len(transactions[w])
    /\ results[w].successful = <<>>
    /\ pendingRows' = [pendingRows EXCEPT ![w] = <<>>]
    /\ pendingBalance' = [pendingBalance EXCEPT ![w] = NoValue]
    /\ lockHolder' = IF lockHolder = w THEN NoLock ELSE lockHolder
    /\ pc' = [pc EXCEPT ![w] = "fatal"]
    /\ UNCHANGED <<balance, txrows, parsed, transactions, user_info, current_balance,
                   idx, results, storeErrors, verify_response, initBalance, initRows>>
    /\ UNCHANGED <<expenseVars, validVars, parseVars, matchVars>>

\* Lines 138-140: nothing succeeded, ROLLBACK; the results are still returned.
Rollback(w) ==
    /\ pc[w] = "loop"
    /\ idx[w] > Len(transactions[w])
    /\ results[w].successful = <<>>
    /\ results[w].total_success = 0
    /\ pendingRows' = [pendingRows EXCEPT ![w] = <<>>]
    /\ pendingBalance' = [pendingBalance EXCEPT ![w] = NoValue]
    /\ lockHolder' = IF lockHolder = w THEN NoLock ELSE lockHolder
    /\ pc' = [pc EXCEPT ![w] = "done"]
    /\ UNCHANGED <<balance, txrows, parsed, transactions, user_info, current_balance,
                   idx, results, storeErrors, verify_response,
                   initBalance, initRows>>
    /\ UNCHANGED <<expenseVars, validVars, parseVars, matchVars>>

(***************************************************************************)
(* verify_ledger_file: the handler returns the parsed list right after     *)
(* parsing (router.py:107).  The validation block that follows the return  *)
(* never runs, so the response carries no repeated / existing /            *)
(* processable / unprocessable sections and no projected balance.          *)
(***************************************************************************)
VerifyLedgerFile(w) ==
    /\ pc[w] = "idle"
    /\ verify_response = NoResponse
    /\ verify_response' = [returned |-> "parsed_transactions", body |-> parsed[w]]
    /\ UNCHANGED <<balance, txrows, lockHolder, parsed, pc, transactions, user_info,
                   current_balance, idx, results, pendingRows, pendingBalance,
                   storeErrors, initBalance, initRows>>
    /\ UNCHANGED <<expenseVars, validVars, parseVars, matchVars>>

(***************************************************************************)
(* TransactionValidator.                                                   *)
(***************************************************************************)
\* str() of the float amount the parser emits, for whole amounts: 5 -> "5.0"
AmountStr(a) == ToString(a) \o ".0"

\* Mutant: the description is left out of the key.
TransactionKeyNoDescription(tx) == tx.date \o "_" \o AmountStr(tx.amount)

\* transaction_validator.py:57  key = f"{date}_{amount}_{description}"
TransactionKey(tx) == tx.date \o "_" \o AmountStr(tx.amount) \o "_" \o tx.description

\* transaction_validator.py:55-70, the loop from position i on; map holds the
\* keys seen so far with the index recorded for each.
RECURSIVE FindRepeatedFrom(_, _, _, _, _)
FindRepeatedFrom(txs, i, map, repeated, unique) ==
    IF i > Len(txs) THEN [repeated |-> repeated, unique |-> unique]
    ELSE LET tx == txs[i]
             key == TransactionKey(tx)
         IN  IF \E m \in map : m.key = key
             THEN LET first == CHOOSE m \in map : m.key = key
                  IN  FindRepeatedFrom(txs, i + 1, map,
                          Append(repeated, [tx |-> tx, duplicate_of |-> first.index]),
                          unique)
             ELSE FindRepeatedFrom(txs, i + 1,
                          map \cup {[key |-> key, index |-> Len(unique)]},
                          repeated, Append(unique, tx))

find_repeated_transactions(txs) == FindRepeatedFrom(txs, 1, {}, <<>>, <<>>)

\* Mutant: the stored amount is compared without ABS().
check_existing_signed(rows, user_id, date, amount) ==
    \E k \in 1..Len(rows) :
        /\ rows[k].user = user_id
        /\ rows[k].date = date
        /\ rows[k].amount = Abs(amount)

\* transaction_validator.py:36-47
\*   WHERE user_id = %s AND date = %s AND ABS(amount) = abs(amount)
check_existing_transactions(rows, user_id, date, amount) ==
    \E k \in 1..Len(rows) :
        /\ rows[k].user = user_id
        /\ rows[k].date = date
        /\ Abs(rows[k].amount) = Abs(amount)

(***************************************************************************)
(* Spec: one upload at a time (a single caller per pipeline run).          *)
(***************************************************************************)
\* The store before the run: one row of the uploader, or one of another user.
InitStore ==
    {<<[user |-> "u1", date |-> "2024-01-15", description |-> "rent",
        amount |-> -1, type |-> "expense", source |-> "manual"]>>,
     <<[user |-> "u2", date |-> "2024-01-15", description |-> "rent",
        amount |-> 2, type |-> "income", source |-> "import"]>>}

InitWriters ==
    /\ lockHolder = NoLock
    /\ pc = [w \in Writers |-> "idle"]
    /\ transactions = [w \in Writers |-> <<>>]
    /\ user_info = [w \in Writers |-> NoValue]
    /\ current_balance = [w \in Writers |-> NoValue]
    /\ idx = [w \in Writers |-> 0]
    /\ results = [w \in Writers |-> EmptyResults]
    /\ pendingRows = [w \in Writers |-> <<>>]
    /\ pendingBalance = [w \in Writers |-> NoValue]
    /\ storeErrors = [w \in Writers |-> {}]
    /\ verify_response = NoResponse

InitExpense ==
    /\ epc = "idle"
    /\ bank_account = NoValue

InitValidator ==
    /\ vresult = NoResult
    /\ vquery = NoQuery

\* Scenario 5 of the specification: balance 100 and three transactions.
Scenario5 ==
    [balance |-> 100,
     batch |-> <<[type |-> "expense", amount |-> 50, date |-> "2024-01-15",
                  description |-> "rent"],
                 [type |-> "income", amount |-> 200, date |-> "2024-01-15",
                  description |-> "rent"],
                 [type |-> "expense", amount |-> 300, date |-> "2024-01-15",
                  description |-> "rent"]>>]

Init ==
    /\ balance \in {-1} \cup (0..MaxBalance)
    /\ txrows \in InitStore
    /\ \E b \in SeqsUpTo(CommitTx, MaxBatch) :
           parsed = [w \in Writers |-> IF w = "w1" THEN b ELSE <<>>]
    /\ InitWriters
    /\ initBalance = balance
    /\ initRows = txrows
    /\ InitParser
    /\ InitMatcher
    /\ InitExpense
    /\ expense = 1
    /\ InitValidator
    /\ vbatch = <<>>

Next ==
    \/ VerifyLedgerFile("w1")
    \/ UploadLedgerFile("w1")
    \/ SelectUserInfo("w1")
    \/ StartTransaction("w1")
    \/ ProcessTx("w1")
    \/ UpdateBalance("w1")
    \/ Commit("w1")
    \/ Rollback("w1")

Spec == Init /\ [][Next]_vars

(***************************************************************************)
(* SpecRun: one commit run on an empty store, started from a balance that  *)
(* is not negative, over the batches of positive amounts and scenario 5.   *)
(***************************************************************************)
RunTx == {t \in CommitTx : t.amount > 0}

InitRun ==
    /\ \/ /\ balance \in 0..MaxBalance
          /\ \E b \in SeqsUpTo(RunTx, MaxBatch) :
                 parsed = [w \in Writers |-> IF w = "w1" THEN b ELSE <<>>]
       \/ /\ balance = Scenario5.balance
          /\ parsed = [w \in Writers |-> IF w = "w1" THEN Scenario5.batch ELSE <<>>]
    /\ txrows = <<>>
    /\ InitWriters
    /\ initBalance = balance
    /\ initRows = txrows
    /\ InitParser
    /\ InitMatcher
    /\ InitExpense
    /\ expense = 1
    /\ InitValidator
    /\ vbatch = <<>>

NextRun ==
    \/ UploadLedgerFile("w1")
    \/ SelectUserInfo("w1")
    \/ StartTransaction("w1")
    \/ ProcessTx("w1")
    \/ UpdateBalance("w1")
    \/ Commit("w1")
    \/ Rollback("w1")

SpecRun == InitRun /\ [][NextRun]_vars

(***************************************************************************)
(* create_expense_transaction (account/router.py:196-308): the manual      *)
(* writer.  It locks the balance row with SELECT ... FOR UPDATE, checks    *)
(* the balance it read, inserts one row and adds the signed amount to the  *)
(* balance, all in one unit.                                               *)
(***************************************************************************)
ExpenseSelectForUpdate ==
    /\ epc = "idle"
    /\ lockHolder = NoLock
    /\ lockHolder' = Manual
    /\ bank_account' = balance
    /\ epc' = "locked"
    /\ UNCHANGED <<balance, txrows, parsed, pc, transactions, user_info,
                   current_balance, idx, results, pendingRows, pendingBalance,
                   storeErrors, verify_response, initBalance, initRows>>
    /\ UNCHANGED <<expense, validVars, parseVars, matchVars>>

ExpenseRow(expense_amount) ==
    [user |-> Uploader, date |-> "2024-01-16", description |-> "rent",
     amount |-> expense_amount, type |-> "expense", source |-> "manual"]

ExpenseInsertUpdateCommit ==
    /\ epc = "locked"
    /\ lockHolder = Manual
    /\ LET expense_amount == Abs(expense) * (-1)
           new_balance == bank_account + expense_amount
       IN  \E valid_category \in BOOLEAN :
               IF ~valid_category \/ new_balance < 0
               THEN \* HTTP 400; the connection closes and the unit is rolled back
                    /\ epc' = "rejected"
                    /\ UNCHANGED <<balance, txrows>>
               ELSE /\ txrows' = Append(txrows, ExpenseRow(expense_amount))
                    /\ balance' = balance + expense_amount
                    /\ epc' = "done"
    /\ lockHolder' = NoLock
    /\ UNCHANGED <<parsed, pc, transactions, user_info, current_balance, idx, results,
                   pendingRows, pendingBalance, storeErrors, verify_response,
                   initBalance, initRows>>
    /\ UNCHANGED <<expense, bank_account, validVars, parseVars, matchVars>>

(***************************************************************************)
(* SpecConc: two uploads and a manual expense against the same account,    *)
(* their statements interleaved.                                           *)
(***************************************************************************)
ConcBatches ==
    {<<>>,
     <<[type |-> "income", amount |-> 1, date |-> "2024-01-15", description |-> "rent"]>>,
     <<[type |-> "expense", amount |-> 1, date |-> "2024-01-15", description |-> "rent"]>>,
     <<[type |-> "expense", amount |-> 2, date |-> "2024-01-15", description |-> "rent"],
       [type |-> "income", amount |-> 2, date |-> "2024-01-15", description |-> "rent"]>>}

InitConc ==
    /\ balance \in 0..MaxBalance
    /\ txrows = <<>>
    /\ parsed \in [Writers -> ConcBatches]
    /\ InitWriters
    /\ initBalance = balance
    /\ initRows = txrows
    /\ InitParser
    /\ InitMatcher
    /\ InitExpense
    /\ expense \in 1..MaxAmount
    /\ InitValidator
    /\ vbatch = <<>>

NextConc ==
    \/ \E w \in Writers :
           \/ UploadLedgerFile(w)
           \/ SelectUserInfo(w)
           \/ StartTransaction(w)
           \/ ProcessTx(w)
           \/ UpdateBalance(w)
           \/ Commit(w)
           \/ Rollback(w)
    \/ ExpenseSelectForUpdate
    \/ ExpenseInsertUpdateCommit

SpecConc == InitConc /\ [][NextConc]_vars

(***************************************************************************)
(* SpecValidate: the two validator methods applied to bounded inputs.      *)
(***************************************************************************)
FindRepeated ==
    /\ vresult = NoResult
    /\ vquery = NoQuery
    /\ vresult' = [returned |-> TRUE,
                   repeated |-> find_repeated_transactions(vbatch).repeated,
                   unique |-> find_repeated_transactions(vbatch).unique]
    /\ UNCHANGED <<commitVars, expenseVars, vbatch, vquery, parseVars, matchVars>>

CheckExisting ==
    /\ vquery = NoQuery
    /\ vresult = NoResult
    /\ \E user_id \in Users, date \in Dates, amount \in Amounts :
           vquery' = [asked |-> TRUE, user_id |-> user_id, date |-> date,
                      amount |-> amount,
                      exists_in_db |->
                          check_existing_transactions(txrows, user_id, date, amount)]
    /\ UNCHANGED <<commitVars, expenseVars, vbatch, vresult, parseVars, matchVars>>

StoreRows ==
    [user : Users, date : Dates, description : {"rent"}, amount : {-1, 1, 2},
     type : {"expense"}, source : {"manual"}]

\* Longer batches over two transactions that differ in the description.
MaxLongBatch == 4

LongBatches ==
    [1..MaxLongBatch ->
        {t \in ValTx : t.type = "expense" /\ t.amount = 1 /\ t.date = "2024-01-15"}]

InitValidate ==
    /\ \/ /\ vbatch \in SeqsUpTo(ValTx, MaxBatch) \cup LongBatches
          /\ txrows = <<>>
       \/ /\ vbatch = <<>>
          /\ txrows \in SeqsUpTo(StoreRows, 2)
    /\ balance = 0
    /\ parsed = [w \in Writers |-> <<>>]
    /\ InitWriters
    /\ initBalance = balance
    /\ initRows = txrows
    /\ InitParser
    /\ InitMatcher
    /\ InitExpense
    /\ expense = 1
    /\ InitValidator

NextValidate == FindRepeated \/ CheckExisting

SpecValidate == InitValidate /\ [][NextValidate]_vars

(***************************************************************************)
(* Properties of one commit run.  They are stated over what the run        *)
(* recorded (results, rows, balances), with the signed amount and the      *)
(* running balance recomputed here from the batch.                         *)
(***************************************************************************)
W1 == "w1"

Signed(tx) == IF tx.type = "income" THEN tx.amount ELSE 0 - tx.amount

RECURSIVE SumSigned(_)
SumSigned(entries) ==
    IF entries = <<>> THEN 0 ELSE Signed(entries[1].tx) + SumSigned(Tail(entries))

\* The entries of a result list whose batch position is below i.
Before(entries, i) == SelectSeq(entries, LAMBDA e : e.index < i)

\* Starting balance plus the successful transactions among 1..i-1.
RunningBefore(w, i) == user_info[w] + SumSigned(Before(results[w].successful, i))

InList(entries, i) == \E k \in 1..Len(entries) : entries[k].index = i

RowsOf(entries) ==
    [k \in 1..Len(entries) |->
        [user |-> Uploader, date |-> entries[k].tx.date,
         description |-> entries[k].tx.description,
         amount |-> Signed(entries[k].tx), type |-> entries[k].tx.type,
         source |-> "import"]]

Returned(w) == pc[w] = "done"
Ended(w) == pc[w] \in {"done", "fatal"}
FatalStatements == {"select", "start", "update"}

\* C1: when a commit run returns, the persisted balance is the starting
\* balance plus the signed amounts of exactly the successful transactions.
C1_BalanceIsStartPlusSuccessful ==
    Returned(W1) =>
        /\ balance = initBalance + SumSigned(results[W1].successful)
        /\ \A k \in 1..Len(results[W1].failed) :
               ~InList(results[W1].successful, results[W1].failed[k].index)

C1_Witness ==
    /\ Returned(W1)
    /\ results[W1].total_success > 0
    /\ results[W1].total_failed > 0
    /\ balance # initBalance

\* C2: every successful expense leaves the running balance >= 0; an expense
\* that would make it negative is in failed with required and available
\* amounts, and no row is inserted for it.
C2_ExpenseKeepsBalanceNonNegative ==
    pc[W1] \in {"loop", "updated", "done"} =>
        /\ \A k \in 1..Len(results[W1].successful) :
               LET e == results[W1].successful[k]
               IN  e.tx.type = "expense" =>
                       RunningBefore(W1, e.index) + Signed(e.tx) >= 0
        /\ \A i \in 1..(idx[W1] - 1) :
               LET tx == transactions[W1][i]
               IN  (tx.type = "expense" /\ RunningBefore(W1, i) - tx.amount < 0) =>
                       /\ ~InList(results[W1].successful, i)
                       /\ \E k \in 1..Len(results[W1].failed) :
                              /\ results[W1].failed[k].index = i
                              /\ results[W1].failed[k].kind = "insufficient"
                              /\ results[W1].failed[k].required = tx.amount
                              /\ results[W1].failed[k].available = RunningBefore(W1, i)
        /\ pc[W1] # "done" => pendingRows[W1] = RowsOf(results[W1].successful)
        /\ pc[W1] = "done" => txrows = initRows \o RowsOf(results[W1].successful)

C2_Witness ==
    /\ Returned(W1)
    /\ \E k \in 1..Len(results[W1].failed) : results[W1].failed[k].kind = "insufficient"
    /\ \E k \in 1..Len(results[W1].successful) :
           /\ results[W1].successful[k].tx.type = "expense"
           /\ results[W1].successful[k].tx.amount > 0

\* C3: a run in which nothing succeeded (the empty batch included) persists
\* no row, leaves the balance as it was, and still returns its result.
C3_NoSuccessRollsBack ==
    (Ended(W1) /\ results[W1].total_success = 0
              /\ storeErrors[W1] \cap FatalStatements = {}) =>
        /\ Returned(W1)
        /\ txrows = initRows
        /\ balance = initBalance
        /\ pendingRows[W1] = <<>>
        /\ results[W1].successful = <<>>

C3_Witness ==
    /\ Returned(W1)
    /\ results[W1].total_success = 0
    /\ results[W1].total_failed > 0
    /\ \E k \in 1..Len(results[W1].failed) : results[W1].failed[k].kind = "insufficient"

\* C4: a failed transaction does not end the batch: on return every
\* transaction was evaluated, each is in exactly one of the two lists, and
\* one that passes the balance check and whose insert worked is committed.
C4_FailureNeverAbortsBatch ==
    Returned(W1) =>
        /\ results[W1].total_processed = Len(transactions[W1])
        /\ \A i \in 1..Len(transactions[W1]) :
               /\ InList(results[W1].successful, i) # InList(results[W1].failed, i)
               /\ \A k \in 1..Len(results[W1].failed) :
                      (results[W1].failed[k].index = i
                          /\ results[W1].failed[k].kind = "insufficient") =>
                      (transactions[W1][i].type = "expense"
                          /\ RunningBefore(W1, i) + Signed(transactions[W1][i]) < 0)
        /\ txrows = initRows \o RowsOf(results[W1].successful)

C4_Witness ==
    /\ Returned(W1)
    /\ \E k \in 1..Len(results[W1].failed) :
       \E j \in 1..Len(results[W1].successful) :
           /\ results[W1].failed[k].index < results[W1].successful[j].index
           /\ results[W1].failed[k].kind = "insufficient"
    /\ Len(txrows) > Len(initRows)

DuplicateInBatch(txs, i) ==
    \E j \in 1..(i - 1) :
        /\ txs[j].date = txs[i].date
        /\ txs[j].amount = txs[i].amount
        /\ txs[j].description = txs[i].description

ExistsInStore(rows, tx) == check_existing_transactions(rows, Uploader, tx.date, tx.amount)

CleanBatch(txs, rows) ==
    \A i \in 1..Len(txs) : ~DuplicateInBatch(txs, i) /\ ~ExistsInStore(rows, txs[i])

\* The transactions a verify response marks processable, and the projected
\* balance it reports; a response without these sections marks none and
\* reports none.
ProcessableOf(response) ==
    IF response.returned = "validation" THEN response.processable_transactions ELSE <<>>

ProjectedOf(response) ==
    IF response.returned = "validation" THEN response.projected_balance ELSE NoValue

\* C7: for a batch without duplicates and without already persisted
\* transactions, the dry run marks processable exactly the transactions the
\* commit run reports successful, each with the running balance after it,
\* and projects the committed balance (stated for the runs in which at
\* least one transaction succeeded).
C7_DryRunAgreesWithCommit ==
    (Returned(W1) /\ verify_response # NoResponse /\ storeErrors[W1] = {}
                 /\ CleanBatch(transactions[W1], initRows)
                 /\ results[W1].total_success > 0) =>
        /\ Len(ProcessableOf(verify_response)) = Len(results[W1].successful)
        /\ \A k \in 1..Len(results[W1].successful) :
               LET e == results[W1].successful[k]
                   v == ProcessableOf(verify_response)[k]
               IN  /\ v.tx = e.tx
                   /\ v.projected_balance = RunningBefore(W1, e.index) + Signed(e.tx)
        /\ ProjectedOf(verify_response) = balance

\* C8: no transaction that repeats an earlier one of the batch, or that
\* already exists in the store, is inserted by an upload.
C8_DuplicateOrExistingNeverCommitted ==
    Returned(W1) =>
        /\ \A k \in 1..Len(results[W1].successful) :
               LET e == results[W1].successful[k]
               IN  /\ ~DuplicateInBatch(transactions[W1], e.index)
                   /\ ~ExistsInStore(initRows, e.tx)
        /\ \A i \in 1..Len(transactions[W1]) :
               (DuplicateInBatch(transactions[W1], i)
                   \/ ExistsInStore(initRows, transactions[W1][i])) =>
               \A k \in (Len(initRows) + 1)..Len(txrows) :
                   ~(/\ txrows[k].date = transactions[W1][i].date
                     /\ txrows[k].amount = Signed(transactions[W1][i])
                     /\ txrows[k].description = transactions[W1][i].description)

(***************************************************************************)
(* Concurrent writers.                                                     *)
(***************************************************************************)
\* What a writer's run added to the account according to its own report.
Reported(w) == IF Returned(w) THEN SumSigned(results[w].successful) ELSE 0

ExpenseReported == IF epc = "done" THEN 0 - Abs(expense) ELSE 0

AllReturned == (\A w \in Writers : Returned(w)) /\ epc \in {"done", "rejected"}

\* C5: with two writers on one account no update is lost: once all have
\* returned, the persisted balance is the initial balance plus everything any
\* writer reported successful, and it is not negative.
C5_NoLostUpdate ==
    AllReturned =>
        /\ balance = initBalance + Reported("w1") + Reported("w2") + ExpenseReported
        /\ balance >= 0

(***************************************************************************)
(* The validators.                                                         *)
(***************************************************************************)
\* The sub-list of txs at the positions that do (dup = TRUE) or do not
\* (dup = FALSE) repeat an earlier (date, amount, description).
RECURSIVE Positions(_, _, _)
Positions(txs, i, dup) ==
    IF i > Len(txs) THEN <<>>
    ELSE IF DuplicateInBatch(txs, i) = dup
         THEN <<txs[i]>> \o Positions(txs, i + 1, dup)
         ELSE Positions(txs, i + 1, dup)

SameKey(a, b) ==
    a.date = b.date /\ a.amount = b.amount /\ a.description = b.description

\* C9: find_repeated_transactions splits the batch by the exact key (date,
\* amount, description): repeated holds, in order, the transactions that
\* have an earlier one with the same key, unique holds the others in batch
\* order, no two of unique share a key, and the two lengths add up.
C9_RepeatedPartitionsByKey ==
    vresult.returned =>
        /\ vresult.unique = Positions(vbatch, 1, FALSE)
        /\ [k \in 1..Len(vresult.repeated) |-> vresult.repeated[k].tx]
               = Positions(vbatch, 1, TRUE)
        /\ \A j, k \in 1..Len(vresult.unique) :
               SameKey(vresult.unique[j], vresult.unique[k]) => j = k
        /\ Len(vresult.repeated) + Len(vresult.unique) = Len(vbatch)

C9_Witness ==
    /\ vresult.returned
    /\ Len(vresult.repeated) > 0
    /\ Len(vresult.unique) > 1
    /\ \E j, k \in 1..Len(vbatch) :
           /\ j < k
           /\ vbatch[j].date = vbatch[k].date
           /\ vbatch[j].amount = vbatch[k].amount
           /\ vbatch[j].description # vbatch[k].description

RowSet(rows) == {rows[k] : k \in 1..Len(rows)}

\* C10: the existing-in-store check answers yes exactly when the store
\* holds a row of the same user with the same date and the amount or its
\* negation; descriptions, signs and other users' rows do not matter.
C10_ExistingIffSameUserDateAbsAmount ==
    vquery.asked =>
        (vquery.exists_in_db <=>
            \E r \in RowSet(txrows) :
                /\ r.user = vquery.user_id
                /\ r.date = vquery.date
                /\ (r.amount = vquery.amount \/ r.amount = 0 - vquery.amount))

C10_Witness ==
    /\ vquery.asked
    /\ vquery.exists_in_db
    /\ \A r \in RowSet(txrows) : r.user = vquery.user_id => r.amount # vquery.amount
    /\ \E r \in RowSet(txrows) : r.user # vquery.user_id

(***************************************************************************)
(* parse_ledger_entries (ledger_parser.py:194-274) and determine_category  *)
(* (ledger_parser.py:157-192).  Amounts are counted in hundredths.         *)
(***************************************************************************)
\* float(amount_str) for a text of an optional sign, digits and at most one
\* point (the amount texts of the model carry at most two fractional
\* digits); any other character raises ValueError.
Float(s) ==
    LET t == Strip(s)
        signed == t # <<>> /\ t[1] \in {"-", "+"}
        body == IF signed THEN Tail(t) ELSE t
        fields == Split(body, <<".">>)
        ip == fields[1]
        fp == IF Len(fields) = 2 THEN fields[2] ELSE <<>>
        wellFormed == /\ Len(fields) <= 2
                      /\ AllDigits(ip)
                      /\ AllDigits(fp)
                      /\ Len(ip) + Len(fp) > 0
        magnitude == 100 * DigitsVal(ip, 0)
                         + DigitsVal(SubSeq(fp \o <<"0", "0">>, 1, 2), 0)
    IN  IF wellFormed
        THEN [ok |-> TRUE,
              value |-> IF signed /\ t[1] = "-" THEN 0 - magnitude ELSE magnitude]
        ELSE [ok |-> FALSE]

\* The literal the parser removes from an amount text: the three characters
\* U+00E2 U+201A U+00B9, not the rupee sign U+20B9.
CurrencyLiteral == <<"U+00E2", "U+201A", "U+00B9">>

\* parts[-1].replace(<literal>, '').replace(',', '')
AmountStrOf(field) == Replace(Replace(field, CurrencyLiteral, <<>>), <<",">>, <<>>)

IsLeap(y) == (y % 4 = 0 /\ y % 100 # 0) \/ y % 400 = 0
DaysIn(y, m) ==
    IF m = 2 THEN (IF IsLeap(y) THEN 29 ELSE 28)
    ELSE IF m \in {4, 6, 9, 11} THEN 30 ELSE 31

\* datetime.strptime(date_str, '%Y/%m/%d') for the zero-padded shape
\* dddd/dd/dd; anything else raises ValueError.
strptime(date_str) ==
    LET shaped == /\ Len(date_str) = 10
                  /\ date_str[5] = "/"
                  /\ date_str[8] = "/"
                  /\ \A k \in {1, 2, 3, 4, 6, 7, 9, 10} : IsDigit(date_str[k])
        y == DigitsVal(SubSeq(date_str, 1, 4), 0)
        m == DigitsVal(SubSeq(date_str, 6, 7), 0)
        d == DigitsVal(SubSeq(date_str, 9, 10), 0)
    IN  IF shaped /\ y >= 1 /\ m \in 1..12 /\ d \in 1..DaysIn(y, m)
        THEN [ok |-> TRUE, year |-> y, month |-> m, day |-> d]
        ELSE [ok |-> FALSE]

\* .strftime('%Y-%m-%d')
strftime(t) ==
    Digits[((t.year \div 1000) % 10) + 1] \o Digits[((t.year \div 100) % 10) + 1]
        \o Digits[((t.year \div 10) % 10) + 1] \o Digits[(t.year % 10) + 1] \o "-"
        \o Digits[(t.month \div 10) + 1] \o Digits[(t.month % 10) + 1] \o "-"
        \o Digits[(t.day \div 10) + 1] \o Digits[(t.day % 10) + 1]

category_mappings ==
    [income |->
     <<[category |-> <<"S", "a", "l", "a", "r", "y">>, id |-> 1],
     [category |-> <<"M", "F">>, id |-> 2],
     [category |-> <<"I", "n", "v", "e", "s", "t", "m", "e", "n", "t">>, id |-> 2],
     [category |-> <<"F", "r", "e", "e", "l", "a", "n", "c", "e">>, id |-> 3],
     [category |-> <<"O", "t", "h", "e", "r">>, id |-> 4]>>,
     expense |->
     <<[category |-> <<"F", "o", "o", "d">>, id |-> 5],
     [category |-> <<"G", "r", "o", "c", "e", "r", "y">>, id |-> 5],
     [category |-> <<"D", "i", "n", "i", "n", "g">>, id |-> 5],
     [category |-> <<"U", "t", "i", "l", "i", "t", "i", "e", "s">>, id |-> 6],
     [category |-> <<"E", "l", "e", "c", "t", "r", "i", "c", "i", "t", "y">>, id |-> 6],
     [category |-> <<"I", "n", "t", "e", "r", "n", "e", "t">>, id |-> 6],
     [category |-> <<"T", "r", "a", "n", "s", "p", "o", "r", "t">>, id |-> 7],
     [category |-> <<"F", "u", "e", "l">>, id |-> 7],
     [category |-> <<"H", "e", "a", "l", "t", "h">>, id |-> 8],
     [category |-> <<"P", "h", "a", "r", "m", "a", "c", "y">>, id |-> 8],
     [category |-> <<"S", "h", "o", "p", "p", "i", "n", "g">>, id |-> 9],
     [category |-> <<"E", "M", "I">>, id |-> 10],
     [category |-> <<"L", "o", "a", "n">>, id |-> 10],
     [category |-> <<"I", "n", "v", "e", "s", "t", "m", "e", "n", "t">>, id |-> 11]>>]

RECURSIVE MatchPart(_, _, _)
MatchPart(part, mapping, k) ==
    IF k > Len(mapping) THEN NoValue
    ELSE IF Contains(Lower(part), Lower(mapping[k].category)) THEN mapping[k].id
         ELSE MatchPart(part, mapping, k + 1)

RECURSIVE MatchParts(_, _, _)
MatchParts(account_parts, mapping, k) ==
    IF k > Len(account_parts) THEN NoValue
    ELSE LET id == MatchPart(account_parts[k], mapping, 1)
         IN  IF id # NoValue THEN id ELSE MatchParts(account_parts, mapping, k + 1)

\* Mutant: no fallback id when no part of the account matches.
determine_category_no_fallback(account, trans_type) ==
    MatchParts(Split(account, <<":">>), category_mappings[trans_type], 1)

determine_category(account, trans_type) ==
    LET id == MatchParts(Split(account, <<":">>), category_mappings[trans_type], 1)
    IN  IF id # NoValue THEN id
        ELSE IF trans_type = "income" THEN 4 ELSE 9

\* [p.strip() for p in line.split('  ') if p.strip()]
StrippedFields(line) ==
    LET fields == Split(line, <<" ", " ">>)
        stripped == [k \in 1..Len(fields) |-> Strip(fields[k])]
    IN  SelectSeq(stripped, LAMBDA p : p # <<>>)

\* Mutant: the type is read off the first posting.
TransTypeOfFirstPosting(accounts) ==
    IF Contains(accounts[1], <<"I", "n", "c", "o", "m", "e", ":">>) THEN "income" ELSE "expense"

\* ledger_parser.py:212, 258  "income" if "Income:" in current_accounts[1]
TransType(accounts) ==
    IF Contains(accounts[2], <<"I", "n", "c", "o", "m", "e", ":">>) THEN "income" ELSE "expense"

\* The dict appended when a following header flushes the open transaction
\* (lines 211-225).
FlushedByHeader(header, accounts, amount) ==
    LET trans_type == TransType(accounts)
    IN  [date |-> header.date,
         description |-> header.description,
         type |-> trans_type,
         amount |-> amount.value,
         debit_account |-> Join(accounts[1]),
         credit_account |-> Join(accounts[2]),
         category_id |-> determine_category(
             IF trans_type = "income" THEN accounts[2] ELSE accounts[1], trans_type)]

\* The dict appended after the loop (lines 256-271).
FlushedAtEnd(header, accounts, amount) ==
    LET trans_type == TransType(accounts)
    IN  [date |-> header.date,
         description |-> header.description,
         type |-> trans_type,
         amount |-> amount.value,
         credit_account |-> Join(accounts[1]),
         debit_account |-> Join(accounts[2]),
         category_id |-> determine_category(
             IF trans_type = "income" THEN accounts[2] ELSE accounts[1], trans_type)]

Pending == current_transaction.open /\ Len(current_accounts) = 2

InLoop == ppc = "loop" /\ lineNo <= Len(lines)

\* if not line.strip(): continue
SkipBlank ==
    /\ InLoop
    /\ Strip(lines[lineNo]) = <<>>
    /\ lineNo' = lineNo + 1
    /\ UNCHANGED <<lines, current_transaction, current_accounts, current_amount,
                   ptransactions, ppc>>
    /\ UNCHANGED <<commitVars, expenseVars, validVars, matchVars>>

\* if line[0].isdigit(): flush the open transaction, then open the new header.
\* float(None) raises TypeError, strptime raises ValueError: neither is caught.
ParseHeader ==
    /\ InLoop
    /\ Strip(lines[lineNo]) # <<>>
    /\ IsDigit(lines[lineNo][1])
    /\ LET line == lines[lineNo]
           date_str == SubSeq(line, 1, IF Len(line) < 10 THEN Len(line) ELSE 10)
           description == Strip(SubSeq(line, 11, Len(line)))
           flushed == IF Pending
                      THEN Append(ptransactions,
                                  FlushedByHeader(current_transaction,
                                                  current_accounts, current_amount))
                      ELSE ptransactions
       IN  IF Pending /\ current_amount = NoAmount
           THEN /\ ppc' = "TypeError"
                /\ UNCHANGED <<lineNo, current_transaction, current_accounts,
                               current_amount, ptransactions>>
           ELSE IF ~strptime(date_str).ok
           THEN /\ ppc' = "ValueError"
                /\ ptransactions' = flushed
                /\ UNCHANGED <<lineNo, current_transaction, current_accounts,
                               current_amount>>
           ELSE /\ ptransactions' = flushed
                /\ current_transaction' =
                       [open |-> TRUE,
                        date |-> strftime(strptime(date_str)),
                        description |-> Join(description)]
                /\ current_accounts' = <<>>
                /\ current_amount' = NoAmount
                /\ lineNo' = lineNo + 1
                /\ UNCHANGED ppc
    /\ UNCHANGED lines
    /\ UNCHANGED <<commitVars, expenseVars, validVars, matchVars>>

\* elif line.startswith(' ') and current_transaction: one posting.
ParsePosting ==
    /\ InLoop
    /\ Strip(lines[lineNo]) # <<>>
    /\ ~IsDigit(lines[lineNo][1])
    /\ lines[lineNo][1] = " "
    /\ current_transaction.open
    /\ LET parts == StrippedFields(lines[lineNo])
       IN  IF parts = <<>>
           THEN UNCHANGED <<current_accounts, current_amount>>
           ELSE /\ current_accounts' = Append(current_accounts, parts[1])
                /\ IF Len(parts) > 1 /\ Float(AmountStrOf(parts[Len(parts)])).ok
                   THEN current_amount' =
                            [set |-> TRUE,
                             value |-> Float(AmountStrOf(parts[Len(parts)])).value]
                   ELSE UNCHANGED current_amount
    /\ lineNo' = lineNo + 1
    /\ UNCHANGED <<lines, current_transaction, ptransactions, ppc>>
    /\ UNCHANGED <<commitVars, expenseVars, validVars, matchVars>>

\* A line that is neither a header nor a posting of an open header.
SkipOther ==
    /\ InLoop
    /\ Strip(lines[lineNo]) # <<>>
    /\ ~IsDigit(lines[lineNo][1])
    /\ ~(lines[lineNo][1] = " " /\ current_transaction.open)
    /\ lineNo' = lineNo + 1
    /\ UNCHANGED <<lines, current_transaction, current_accounts, current_amount,
                   ptransactions, ppc>>
    /\ UNCHANGED <<commitVars, expenseVars, validVars, matchVars>>

\* After the loop: flush the last transaction and return the list.
ParseEnd ==
    /\ ppc = "loop"
    /\ lineNo > Len(lines)
    /\ IF Pending /\ current_amount = NoAmount
       THEN /\ ppc' = "TypeError"
            /\ UNCHANGED ptransactions
       ELSE /\ ppc' = "returned"
            /\ ptransactions' =
                   IF Pending
                   THEN Append(ptransactions,
                               FlushedAtEnd(current_transaction, current_accounts,
                                            current_amount))
                   ELSE ptransactions
    /\ UNCHANGED <<lines, lineNo, current_transaction, current_accounts,
                   current_amount>>
    /\ UNCHANGED <<commitVars, expenseVars, validVars, matchVars>>

(***************************************************************************)
(* SpecParse: parse_ledger_entries applied to bounded ledger texts.        *)
(***************************************************************************)
MaxLines == 4
MaxLongLines == 6

HeaderGrocery ==
    <<"2", "0", "2", "4", "/", "0", "1", "/", "1", "5", " ", "G", "r", "o",
      "c", "e", "r", "y", " ", "R", "u", "n">>
HeaderBadDate ==
    <<"2", "0", "2", "4", "/", "1", "3", "/", "4", "5", " ", "R", "e", "n",
      "t">>
PostFood ==
    <<" ", " ", " ", " ", "E", "x", "p", "e", "n", "s", "e", "s", ":", "F",
      "o", "o", "d", " ", "&", " ", "D", "i", "n", "i", "n", "g", " ", " ",
      " ", " ", "5", "0", "0", ".", "0", "0">>
PostBank ==
    <<" ", " ", " ", " ", "A", "s", "s", "e", "t", "s", ":", "B", "a", "n",
      "k", "i", "n", "g", ":", "H", "D", "F", "C">>
PostBankMinus ==
    <<" ", " ", " ", " ", "A", "s", "s", "e", "t", "s", ":", "B", "a", "n",
      "k", "i", "n", "g", ":", "H", "D", "F", "C", " ", " ", "-", "5", "0",
      "0", ".", "0", "0">>
PostComma ==
    <<" ", " ", " ", " ", "E", "x", "p", "e", "n", "s", "e", "s", ":", "S",
      "h", "o", "p", "p", "i", "n", "g", " ", " ", "1", ",", "2", "3", "4",
      ".", "5", "0">>
PostRupee ==
    <<" ", " ", " ", " ", "E", "x", "p", "e", "n", "s", "e", "s", ":", "S",
      "h", "o", "p", "p", "i", "n", "g", " ", " ", "U+20B9", "1", ",", "2",
      "3", "4", ".", "5", "0">>
PostSalary ==
    <<" ", " ", " ", " ", "I", "n", "c", "o", "m", "e", ":", "S", "a", "l",
      "a", "r", "y">>
BlankLine == <<>>

LedgerLines ==
    {HeaderGrocery, HeaderBadDate, PostFood, PostBank, PostBankMinus, PostComma,
     PostRupee, PostSalary, BlankLine}

\* Longer texts, of well-formed lines only: several transactions in one file.
PlainLines == {HeaderGrocery, PostFood, PostBank}

LedgerTexts ==
    SeqsUpTo(LedgerLines, MaxLines)
        \cup {t \in SeqsUpTo(PlainLines, MaxLongLines) : Len(t) > MaxLines}

InitParse ==
    /\ lines \in LedgerTexts
    /\ lineNo = 1
    /\ current_transaction = NoTransaction
    /\ current_accounts = <<>>
    /\ current_amount = NoAmount
    /\ ptransactions = <<>>
    /\ ppc = "loop"
    /\ balance = 0
    /\ txrows = <<>>
    /\ parsed = [w \in Writers |-> <<>>]
    /\ InitWriters
    /\ initBalance = balance
    /\ initRows = txrows
    /\ InitExpense
    /\ expense = 1
    /\ InitValidator
    /\ vbatch = <<>>
    /\ InitMatcher

NextParse == SkipBlank \/ ParseHeader \/ ParsePosting \/ SkipOther \/ ParseEnd

SpecParse == InitParse /\ [][NextParse]_vars

(***************************************************************************)
(* Properties of parse_ledger_entries, stated over the input text and the  *)
(* list the call returns.                                                  *)
(***************************************************************************)
ParseFinished == ppc \in {"returned", "TypeError", "ValueError"}

\* What the call hands to its caller: nothing when it raised.
Emitted == IF ppc = "returned" THEN ptransactions ELSE <<>>

IsHeaderLine(line) == line # <<>> /\ IsDigit(line[1])
IsPostingLine(line) == Strip(line) # <<>> /\ line[1] \in Whitespace

\* The posting lines of the header at position h: those up to the next header.
RECURSIVE PostingsAfter(_, _)
PostingsAfter(text, k) ==
    IF k > Len(text) \/ IsHeaderLine(text[k]) THEN <<>>
    ELSE IF IsPostingLine(text[k]) THEN <<text[k]>> \o PostingsAfter(text, k + 1)
         ELSE PostingsAfter(text, k + 1)

\* Positions of the date headers that accumulated exactly two posting lines.
TwoPostingHeaders(text) ==
    {h \in 1..Len(text) :
        /\ IsHeaderLine(text[h])
        /\ strptime(SubSeq(text[h], 1, 10)).ok
        /\ Len(PostingsAfter(text, h + 1)) = 2}

\* The k-th smallest element of a set of positions.
RECURSIVE Sorted(_)
Sorted(S) ==
    IF S = {} THEN <<>>
    ELSE LET m == CHOOSE x \in S : \A y \in S : x <= y
         IN  <<m>> \o Sorted(S \ {m})

AccountOf(line) == Join(StrippedFields(line)[1])

HasAmount(line) ==
    /\ Len(StrippedFields(line)) > 1
    /\ Float(AmountStrOf(StrippedFields(line)[Len(StrippedFields(line))])).ok

\* A header with a valid date, exactly two postings and an amount.
WellFormedHeaders(text) ==
    {h \in TwoPostingHeaders(text) :
        \E k \in 1..2 : HasAmount(PostingsAfter(text, h + 1)[k])}

\* C11: the emitted transactions are, in file order, the headers that
\* accumulated exactly two posting lines before the next header or the end
\* of the input, one transaction per such header and none for any other.
C11_EmitsEveryTwoPostingHeader ==
    ParseFinished =>
        LET hs == Sorted(TwoPostingHeaders(lines))
        IN  /\ Len(Emitted) = Len(hs)
            /\ \A k \in 1..Len(hs) :
                   {Emitted[k].debit_account, Emitted[k].credit_account}
                       = {AccountOf(PostingsAfter(lines, hs[k] + 1)[1]),
                          AccountOf(PostingsAfter(lines, hs[k] + 1)[2])}

\* C12: every emitted transaction has the account of its first posting line as
\* debit_account and the account of its second posting line as credit_account,
\* whether a following header or the end of the input flushed it.
C12_DebitIsFirstPosting ==
    ppc = "returned" =>
        LET hs == Sorted(TwoPostingHeaders(lines))
        IN  \A k \in 1..Len(ptransactions) :
                /\ k <= Len(hs)
                /\ ptransactions[k].debit_account
                       = AccountOf(PostingsAfter(lines, hs[k] + 1)[1])
                /\ ptransactions[k].credit_account
                       = AccountOf(PostingsAfter(lines, hs[k] + 1)[2])

\* C13: no emitted transaction has an amount below zero.
C13_EmittedAmountNonNegative ==
    ppc = "returned" =>
        \A k \in 1..Len(ptransactions) : ptransactions[k].amount >= 0

\* C14: a malformed transaction (a header whose first ten characters are not
\* a date, or two postings without a parsable amount) is dropped: the call
\* returns normally and emits every well-formed two-posting transaction.
C14_MalformedIsDropped ==
    ParseFinished =>
        /\ ppc = "returned"
        /\ Len(ptransactions) >= Cardinality(WellFormedHeaders(lines))

\* C15: the amount text "1,234.50" and the same text behind the currency symbol
\* give the transaction the same amount, 1234.50.
C15_CurrencySymbolIsStripped ==
    \A p \in {PostComma, PostRupee} :
        (ParseFinished /\ lines = <<HeaderGrocery, p, PostBank>>) =>
            /\ ppc = "returned"
            /\ ptransactions[1].amount = 123450

DefinedIds(trans_type) ==
    {category_mappings[trans_type][k].id :
        k \in 1..Len(category_mappings[trans_type])}

IsWordChar(c) == IsDigit(c) \/ c = "_" \/ \E k \in 1..26 : LowerCase[k] = c

\* str.split(): the maximal runs of non-whitespace characters
RECURSIVE WordsFrom(_, _, _, _)
WordsFrom(s, i, cur, acc) ==
    IF i > Len(s) THEN (IF cur = <<>> THEN acc ELSE Append(acc, cur))
    ELSE IF s[i] \in Whitespace
         THEN WordsFrom(s, i + 1, <<>>, IF cur = <<>> THEN acc ELSE Append(acc, cur))
         ELSE WordsFrom(s, i + 1, Append(cur, s[i]), acc)

\* The words of s.split(), as string values.
WordSet(s) ==
    LET ws == WordsFrom(s, 1, <<>>, <<>>)
    IN  {Join(ws[k]) : k \in 1..Len(ws)}

\* _clean_text up to the final ' '.join(text.split()): lower case, the
\* preserved terms spaced out, every character outside [\w\s-] and every
\* hyphen replaced by a space.
clean_text(text) ==
    LET t0 == Lower(text)
        t1 == Replace(t0, <<"e", "m", "i">>, <<" ", "e", "m", "i", " ">>)
        t2 == Replace(t1, <<"l", "o", "a", "n", "-", "e", "m", "i">>, <<" ", "l", "o", "a", "n", " ", "e", "m", "i", " ">>)
        t3 == Replace(t2, <<"c", "r", "e", "d", "i", "t", "-", "c", "a", "r", "d">>, <<" ", "c", "r", "e", "d", "i", "t", " ", "c", "a", "r", "d", " ">>)
        t4 == Replace(t3, <<"m", "u", "t", "u", "a", "l", "-", "f", "u", "n", "d">>, <<" ", "m", "u", "t", "u", "a", "l", " ", "f", "u", "n", "d", " ">>)
        t5 == Replace(t4, <<"s", "i", "p">>, <<" ", "s", "i", "p", " ">>)
    IN  [k \in 1..Len(t5) |->
            IF IsWordChar(t5[k]) \/ t5[k] \in Whitespace THEN t5[k] ELSE " "]

keyword_patterns ==
    <<[pattern_name |-> <<"S", "a", "l", "a", "r", "y">>,
      words |-> {"salary", "wages", "pay", "payroll", "employment", "income"}],
     [pattern_name |-> <<"I", "n", "v", "e", "s", "t", "m", "e", "n", "t", " ", "R", "e", "t", "u", "r", "n", "s">>,
      words |-> {"investment", "return", "mutual", "fund", "mf", "returns",
                 "dividend", "interest", "income", "redemption", "redeemed"}],
     [pattern_name |-> <<"F", "r", "e", "e", "l", "a", "n", "c", "e">>,
      words |-> {"freelance", "contract", "consulting", "project", "gig",
                 "income"}],
     [pattern_name |-> <<"O", "t", "h", "e", "r", " ", "I", "n", "c", "o", "m", "e">>,
      words |-> {"other", "miscellaneous", "misc", "income"}],
     [pattern_name |-> <<"D", "e", "p", "o", "s", "i", "t">>,
      words |-> {"deposit", "cash", "bank"}],
     [pattern_name |-> <<"F", "o", "o", "d", " ", "&", " ", "D", "i", "n", "i", "n", "g">>,
      words |-> {"grocery", "groceries", "food", "dining", "restaurant",
                 "swiggy", "zomato", "supermarket", "mart", "bazaar",
                 "delivery"}],
     [pattern_name |-> <<"U", "t", "i", "l", "i", "t", "i", "e", "s">>,
      words |-> {"electricity", "electric", "power", "utility", "utilities",
                 "internet", "broadband", "water", "gas", "bill", "payment"}],
     [pattern_name |-> <<"T", "r", "a", "n", "s", "p", "o", "r", "t", "a", "t", "i", "o", "n">>,
      words |-> {"transport", "fuel", "petrol", "diesel", "gas", "metro",
                 "bus", "taxi", "uber", "ola", "travel", "transportation",
                 "cab", "ride"}],
     [pattern_name |-> <<"H", "e", "a", "l", "t", "h">>,
      words |-> {"health", "medical", "doctor", "hospital", "pharmacy",
                 "medicine", "healthcare", "clinic", "prescription",
                 "fitness", "gym", "expense"}],
     [pattern_name |-> <<"S", "h", "o", "p", "p", "i", "n", "g">>,
      words |-> {"shopping", "purchase", "store", "retail", "amazon",
                 "flipkart", "mall", "market", "buy", "online", "shop",
                 "expense"}],
     [pattern_name |-> <<"E", "M", "I", " ", "&", " ", "P", "a", "y", "m", "e", "n", "t", "s">>,
      words |-> {"emi", "loan", "payment", "credit", "card", "mortgage",
                 "debt", "installment", "finance", "insurance", "repaid",
                 "friend", "personal"}],
     [pattern_name |-> <<"I", "n", "v", "e", "s", "t", "m", "e", "n", "t">>,
      words |-> {"investment", "invest", "mutual", "fund", "mf", "stocks",
                 "shares", "securities", "sip", "portfolio", "redeemed",
                 "purchase"}],
     [pattern_name |-> <<"E", "n", "t", "e", "r", "t", "a", "i", "n", "m", "e", "n", "t">>,
      words |-> {"entertainment", "movie", "theatre", "recreation", "game",
                 "sports", "leisure", "fun", "expense"}],
     [pattern_name |-> <<"I", "n", "t", "e", "r", "n", "a", "l", " ", "T", "r", "a", "n", "s", "f", "e", "r">>,
      words |-> {"transfer", "mov", "internal", "account", "movement",
                 "between", "accounts"}]>>

\* words.extend([...]) for a name that contains "emi" or "payment": the
\* strings are added as they are, not cleaned and not split.
CompoundVariations ==
    {"emi", "loan-emi", "loan_emi", "loan payment", "monthly payment", "installment"}

PatternWords(name) ==
    UNION {keyword_patterns[k].words :
              k \in {j \in 1..Len(keyword_patterns) :
                        Contains(name, Lower(keyword_patterns[j].pattern_name))}}

\* The keyword set of one category (the body of the loop, lines 119-142).
KeywordsOf(info) ==
    LET name == Lower(Strip(info.name))
        desc == Lower(Strip(info.description))
    IN  WordSet(clean_text(name))
            \cup (IF desc # <<>> THEN WordSet(clean_text(desc)) ELSE {})
            \cup PatternWords(name)
            \cup (IF Contains(name, <<"e", "m", "i">>) \/ Contains(name, <<"p", "a", "y", "m", "e", "n", "t">>)
                  THEN CompoundVariations ELSE {})

initialize_keywords(cats) ==
    [c_id \in {cats[k].id : k \in 1..Len(cats)} |->
        KeywordsOf(cats[CHOOSE k \in 1..Len(cats) : cats[k].id = c_id])]

key_terms == {"emi", "loan", "credit", "payment", "salary", "investment"}

ZeroScore == [num |-> 0, den |-> 1]
\* Mutant: a later category with an equal score replaces the best one.
GreaterOrEqual(a, b) == a.num * b.den >= b.num * a.den /\ a.num > 0

Greater(a, b) == a.num * b.den > b.num * a.den
BelowThreshold(a, tenths) == 10 * a.num < tenths * a.den

\* Mutant: the key-term bonus accumulates over the calls made on the matcher.
calculate_match_score_accumulating(text, category_id) ==
    LET text_words == WordSet(clean_text(text))
        cat_words == IF category_id \in DOMAIN category_keywords
                     THEN category_keywords[category_id] ELSE {}
        overlap == text_words \cap cat_words
        key_term_matches == Cardinality(overlap \cap key_terms) * (1 + Len(mcalls))
        largest == IF Cardinality(text_words) > Cardinality(cat_words)
                   THEN Cardinality(text_words) ELSE Cardinality(cat_words)
        num == 10 * Cardinality(overlap) + key_term_matches * largest
        den == 10 * largest
    IN  IF cat_words = {} \/ overlap = {} THEN ZeroScore
        ELSE IF num > den THEN [num |-> den, den |-> den]
        ELSE [num |-> num, den |-> den]

\* _calculate_match_score: overlap / max(sizes) + 0.1 per key term, capped at 1
calculate_match_score(text, category_id) ==
    LET text_words == WordSet(clean_text(text))
        cat_words == IF category_id \in DOMAIN category_keywords
                     THEN category_keywords[category_id] ELSE {}
        overlap == text_words \cap cat_words
        key_term_matches == Cardinality(overlap \cap key_terms)
        largest == IF Cardinality(text_words) > Cardinality(cat_words)
                   THEN Cardinality(text_words) ELSE Cardinality(cat_words)
        num == 10 * Cardinality(overlap) + key_term_matches * largest
        den == 10 * largest
    IN  IF cat_words = {} \/ overlap = {} THEN ZeroScore
        ELSE IF num > den THEN [num |-> den, den |-> den]
        ELSE [num |-> num, den |-> den]

get_categories_by_type(trans_type) ==
    SelectSeq(categories, LAMBDA cat : Lower(cat.type) = Lower(trans_type))

\* next((cat_id for ... if type == wanted and name.lower() == name), None)
FirstNamed(wanted_type, wanted_name) ==
    LET hits == SelectSeq(categories,
                          LAMBDA cat : /\ Lower(cat.type) = wanted_type
                                       /\ Lower(cat.name) = wanted_name)
    IN  IF hits = <<>> THEN NoValue ELSE hits[1].id

get_default_category(trans_type) ==
    IF Lower(trans_type) = <<"e", "x", "p", "e", "n", "s", "e">>
    THEN IF FirstNamed(<<"e", "x", "p", "e", "n", "s", "e">>, <<"o", "t", "h", "e", "r", " ", "e", "x", "p", "e", "n", "s", "e">>) # NoValue
         THEN FirstNamed(<<"e", "x", "p", "e", "n", "s", "e">>, <<"o", "t", "h", "e", "r", " ", "e", "x", "p", "e", "n", "s", "e">>)
         ELSE FirstNamed(<<"e", "x", "p", "e", "n", "s", "e">>, <<"s", "h", "o", "p", "p", "i", "n", "g">>)
    ELSE FirstNamed(<<"i", "n", "c", "o", "m", "e">>, <<"o", "t", "h", "e", "r", " ", "i", "n", "c", "o", "m", "e">>)

\* The loop of match_category: the first category with the strictly best score.
RECURSIVE BestMatch(_, _, _, _)
BestMatch(search_text, matching_categories, k, best) ==
    IF k > Len(matching_categories) THEN best
    ELSE LET match_score ==
                 calculate_match_score(search_text, matching_categories[k].id)
         IN  BestMatch(search_text, matching_categories, k + 1,
                       IF Greater(match_score, best.confidence)
                       THEN [category_id |-> matching_categories[k].id,
                             confidence |-> match_score]
                       ELSE best)

\* `not best_category_id`
Falsy(id) == id = NoValue \/ id = 0

match_category(description, account, trans_type, threshold) ==
    LET search_text == description \o <<" ">> \o account
        matching_categories == get_categories_by_type(trans_type)
        best == BestMatch(search_text, matching_categories, 1,
                          [category_id |-> NoValue, confidence |-> ZeroScore])
        default_id == get_default_category(trans_type)
    IN  IF Falsy(best.category_id) \/ BelowThreshold(best.confidence, threshold)
        THEN [category_id |->
                  IF default_id # NoValue THEN default_id
                  ELSE IF matching_categories # <<>> THEN matching_categories[1].id
                  ELSE best.category_id,
              confidence |-> ZeroScore]
        ELSE best

(***************************************************************************)
(* SpecMatch: a matcher built over a bounded catalog answers a bounded     *)
(* number of match_category calls.                                         *)
(***************************************************************************)
MaxCalls == 2
\* threshold: float = 0.2, in tenths
DefaultThreshold == 2

CatalogFoodOnly ==
    <<[id |-> 6,
      name |-> <<"F", "o", "o", "d", " ", "&", " ", "D", "i", "n", "i", "n", "g">>,
      type |-> <<"e", "x", "p", "e", "n", "s", "e">>,
      description |->
          <<>>]>>

CatalogDefault ==
    <<[id |-> 1,
      name |-> <<"S", "a", "l", "a", "r", "y">>,
      type |-> <<"i", "n", "c", "o", "m", "e">>,
      description |->
          <<"R", "e", "g", "u", "l", "a", "r", " ", "e", "m", "p", "l", "o",
            "y", "m", "e", "n", "t", " ", "i", "n", "c", "o", "m", "e">>],
     [id |-> 2,
      name |-> <<"I", "n", "v", "e", "s", "t", "m", "e", "n", "t", " ", "R", "e", "t", "u", "r", "n", "s">>,
      type |-> <<"i", "n", "c", "o", "m", "e">>,
      description |->
          <<"R", "e", "t", "u", "r", "n", "s", " ", "f", "r", "o", "m", " ",
            "m", "u", "t", "u", "a", "l", " ", "f", "u", "n", "d", "s", " ",
            "a", "n", "d", " ", "i", "n", "v", "e", "s", "t", "m", "e", "n",
            "t", "s">>],
     [id |-> 3,
      name |-> <<"F", "r", "e", "e", "l", "a", "n", "c", "e">>,
      type |-> <<"i", "n", "c", "o", "m", "e">>,
      description |->
          <<"F", "r", "e", "e", "l", "a", "n", "c", "e", " ", "a", "n", "d",
            " ", "p", "r", "o", "j", "e", "c", "t", "-", "b", "a", "s", "e",
            "d", " ", "i", "n", "c", "o", "m", "e">>],
     [id |-> 4,
      name |-> <<"O", "t", "h", "e", "r", " ", "I", "n", "c", "o", "m", "e">>,
      type |-> <<"i", "n", "c", "o", "m", "e">>,
      description |->
          <<"M", "i", "s", "c", "e", "l", "l", "a", "n", "e", "o", "u", "s",
            " ", "i", "n", "c", "o", "m", "e">>],
     [id |-> 5,
      name |-> <<"D", "e", "p", "o", "s", "i", "t">>,
      type |-> <<"i", "n", "c", "o", "m", "e">>,
      description |->
          <<"C", "a", "s", "h", " ", "d", "e", "p", "o", "s", "i", "t", " ",
            "t", "o", " ", "s", "e", "l", "f", " ", "a", "c", "c", "o", "u",
            "n", "t">>],
     [id |-> 6,
      name |-> <<"F", "o", "o", "d", " ", "&", " ", "D", "i", "n", "i", "n", "g">>,
      type |-> <<"e", "x", "p", "e", "n", "s", "e">>,
      description |->
          <<"G", "r", "o", "c", "e", "r", "i", "e", "s", " ", "a", "n", "d",
            " ", "r", "e", "s", "t", "a", "u", "r", "a", "n", "t", "s">>],
     [id |-> 7,
      name |-> <<"U", "t", "i", "l", "i", "t", "i", "e", "s">>,
      type |-> <<"e", "x", "p", "e", "n", "s", "e">>,
      description |->
          <<"E", "l", "e", "c", "t", "r", "i", "c", "i", "t", "y", ",", " ",
            "i", "n", "t", "e", "r", "n", "e", "t", ",", " ", "a", "n", "d",
            " ", "b", "i", "l", "l", "s">>],
     [id |-> 8,
      name |-> <<"T", "r", "a", "n", "s", "p", "o", "r", "t", "a", "t", "i", "o", "n">>,
      type |-> <<"e", "x", "p", "e", "n", "s", "e">>,
      description |->
          <<"F", "u", "e", "l", " ", "a", "n", "d", " ", "t", "r", "a", "v",
            "e", "l", " ", "e", "x", "p", "e", "n", "s", "e", "s">>],
     [id |-> 9,
      name |-> <<"H", "e", "a", "l", "t", "h">>,
      type |-> <<"e", "x", "p", "e", "n", "s", "e">>,
      description |->
          <<"M", "e", "d", "i", "c", "a", "l", " ", "a", "n", "d", " ", "p",
            "h", "a", "r", "m", "a", "c", "y", " ", "e", "x", "p", "e", "n",
            "s", "e", "s">>],
     [id |-> 10,
      name |-> <<"S", "h", "o", "p", "p", "i", "n", "g">>,
      type |-> <<"e", "x", "p", "e", "n", "s", "e">>,
      description |->
          <<"O", "n", "l", "i", "n", "e", " ", "a", "n", "d", " ", "o", "f",
            "f", "l", "i", "n", "e", " ", "s", "h", "o", "p", "p", "i", "n",
            "g">>],
     [id |-> 11,
      name |-> <<"E", "M", "I", " ", "&", " ", "P", "a", "y", "m", "e", "n", "t", "s">>,
      type |-> <<"e", "x", "p", "e", "n", "s", "e">>,
      description |->
          <<"L", "o", "a", "n", " ", "E", "M", "I", "s", " ", "a", "n", "d",
            " ", "c", "r", "e", "d", "i", "t", " ", "c", "a", "r", "d", " ",
            "p", "a", "y", "m", "e", "n", "t", "s">>],
     [id |-> 12,
      name |-> <<"I", "n", "v", "e", "s", "t", "m", "e", "n", "t">>,
      type |-> <<"e", "x", "p", "e", "n", "s", "e">>,
      description |->
          <<"M", "u", "t", "u", "a", "l", " ", "f", "u", "n", "d", "s", " ",
            "a", "n", "d", " ", "i", "n", "v", "e", "s", "t", "m", "e", "n",
            "t", "s">>],
     [id |-> 13,
      name |-> <<"E", "n", "t", "e", "r", "t", "a", "i", "n", "m", "e", "n", "t">>,
      type |-> <<"e", "x", "p", "e", "n", "s", "e">>,
      description |->
          <<"L", "e", "i", "s", "u", "r", "e", " ", "a", "n", "d", " ", "r",
            "e", "c", "r", "e", "a", "t", "i", "o", "n", "a", "l", " ", "e",
            "x", "p", "e", "n", "s", "e", "s">>],
     [id |-> 14,
      name |-> <<"O", "t", "h", "e", "r", " ", "E", "x", "p", "e", "n", "s", "e">>,
      type |-> <<"e", "x", "p", "e", "n", "s", "e">>,
      description |->
          <<"M", "i", "s", "c", "e", "l", "l", "a", "n", "e", "o", "u", "s",
            " ", "e", "x", "p", "e", "n", "s", "e">>],
     [id |-> 15,
      name |-> <<"I", "n", "t", "e", "r", "n", "a", "l", " ", "T", "r", "a", "n", "s", "f", "e", "r">>,
      type |-> <<"t", "r", "a", "n", "s", "f", "e", "r">>,
      description |->
          <<"A", "c", "c", "o", "u", "n", "t", " ", "t", "r", "a", "n", "s",
            "f", "e", "r", "s">>]>>

CatalogFoodShopping ==
    <<[id |-> 6,
      name |-> <<"F", "o", "o", "d", " ", "&", " ", "D", "i", "n", "i", "n", "g">>,
      type |-> <<"e", "x", "p", "e", "n", "s", "e">>,
      description |->
          <<>>],
     [id |-> 10,
      name |-> <<"S", "h", "o", "p", "p", "i", "n", "g">>,
      type |-> <<"e", "x", "p", "e", "n", "s", "e">>,
      description |->
          <<>>]>>

CatalogIncomeTransfer ==
    <<[id |-> 4,
      name |-> <<"O", "t", "h", "e", "r", " ", "I", "n", "c", "o", "m", "e">>,
      type |-> <<"i", "n", "c", "o", "m", "e">>,
      description |->
          <<>>],
     [id |-> 15,
      name |-> <<"I", "n", "t", "e", "r", "n", "a", "l", " ", "T", "r", "a", "n", "s", "f", "e", "r">>,
      type |-> <<"t", "r", "a", "n", "s", "f", "e", "r">>,
      description |->
          <<>>]>>

CatalogSalaryFood ==
    <<[id |-> 1,
      name |-> <<"S", "a", "l", "a", "r", "y">>,
      type |-> <<"i", "n", "c", "o", "m", "e">>,
      description |->
          <<>>],
     [id |-> 6,
      name |-> <<"F", "o", "o", "d", " ", "&", " ", "D", "i", "n", "i", "n", "g">>,
      type |-> <<"e", "x", "p", "e", "n", "s", "e">>,
      description |->
          <<>>]>>

CatalogEmpty == <<>>

\* Two user-made expense categories with one keyword each.
CatalogSwiggyFood ==
    <<[id |-> 2,
      name |-> <<"S", "w", "i", "g", "g", "y">>,
      type |-> <<"e", "x", "p", "e", "n", "s", "e">>,
      description |->
          <<>>],
     [id |-> 5,
      name |-> <<"F", "o", "o", "d">>,
      type |-> <<"e", "x", "p", "e", "n", "s", "e">>,
      description |->
          <<>>]>>

Catalogs ==
    {CatalogFoodOnly, CatalogDefault, CatalogFoodShopping, CatalogIncomeTransfer,
     CatalogSalaryFood, CatalogEmpty, CatalogSwiggyFood}

SwiggyOrder == <<"s", "w", "i", "g", "g", "y", " ", "o", "r", "d", "e", "r">>
ExpensesFood == <<"E", "x", "p", "e", "n", "s", "e", "s", ":", "F", "o", "o", "d">>
SalaryCredit == <<"s", "a", "l", "a", "r", "y", " ", "c", "r", "e", "d", "i", "t">>
IncomeSalary == <<"I", "n", "c", "o", "m", "e", ":", "S", "a", "l", "a", "r", "y">>
TypeExpense == <<"e", "x", "p", "e", "n", "s", "e">>
TypeIncome == <<"i", "n", "c", "o", "m", "e">>
TypeTransfer == <<"t", "r", "a", "n", "s", "f", "e", "r">>

MatchTexts ==
    {[description |-> SwiggyOrder, account |-> ExpensesFood],
     [description |-> SalaryCredit, account |-> IncomeSalary]}
MatchTypes == {TypeExpense, TypeIncome, TypeTransfer}
Thresholds == {DefaultThreshold, 0}

\* One call of match_category; the call and what it returned are recorded.
MatchCategory ==
    /\ Len(mcalls) < MaxCalls
    /\ \E text \in MatchTexts, trans_type \in MatchTypes, threshold \in Thresholds :
           LET result == match_category(text.description, text.account,
                                        trans_type, threshold)
           IN  mcalls' = Append(mcalls,
                                [description |-> text.description,
                                 account |-> text.account,
                                 trans_type |-> trans_type,
                                 threshold |-> threshold,
                                 category_id |-> result.category_id,
                                 confidence |-> result.confidence])
    /\ UNCHANGED <<categories, category_keywords>>
    /\ UNCHANGED <<commitVars, expenseVars, validVars, parseVars>>

InitMatch ==
    /\ categories \in Catalogs
    /\ category_keywords = initialize_keywords(categories)
    /\ mcalls = <<>>
    /\ balance = 0
    /\ txrows = <<>>
    /\ parsed = [w \in Writers |-> <<>>]
    /\ InitWriters
    /\ initBalance = balance
    /\ initRows = txrows
    /\ InitExpense
    /\ expense = 1
    /\ InitValidator
    /\ vbatch = <<>>
    /\ InitParser

NextMatch == MatchCategory

SpecMatch == InitMatch /\ [][NextMatch]_vars

(***************************************************************************)
(* Properties of match_category, stated over the recorded calls.           *)
(***************************************************************************)
Calls == {mcalls[k] : k \in 1..Len(mcalls)}

SameRequest(a, b) ==
    /\ a.description = b.description
    /\ a.account = b.account
    /\ a.trans_type = b.trans_type
    /\ a.threshold = b.threshold

HasFoodAndDining ==
    \E k \in 1..Len(categories) :
        /\ categories[k].id = 6
        /\ categories[k].name = <<"F", "o", "o", "d", " ", "&", " ", "D", "i", "n", "i", "n", "g">>
        /\ categories[k].type = TypeExpense

\* C16: with the expense category (6, "Food & Dining") in the catalog, the call
\* ("swiggy order", "Expenses:Food", expense) at the default threshold returns
\* category 6 with a confidence of at least 0.2.
C16_SwiggyOrderMatchesFood ==
    \A call \in Calls :
        (/\ HasFoodAndDining
         /\ call.description = SwiggyOrder
         /\ call.account = ExpensesFood
         /\ call.trans_type = TypeExpense
         /\ call.threshold = DefaultThreshold)
        => /\ call.category_id = 6
           /\ ~BelowThreshold(call.confidence, 2)

\* The categories of the requested type, and among them the one of a name.
OfType(trans_type) == SelectSeq(categories, LAMBDA cat : cat.type = trans_type)

NamedOfType(trans_type, name) ==
    SelectSeq(OfType(trans_type), LAMBDA cat : Lower(cat.name) = name)

\* The fallback of the claim: "Other Expense" / "Other Income" for the type,
\* else "Shopping" for an expense, else the first category of the type.
PreferredFallback(trans_type) ==
    LET other == IF trans_type = TypeExpense
                 THEN NamedOfType(trans_type, <<"o", "t", "h", "e", "r", " ", "e", "x", "p", "e", "n", "s", "e">>)
                 ELSE IF trans_type = TypeIncome
                      THEN NamedOfType(trans_type, <<"o", "t", "h", "e", "r", " ", "i", "n", "c", "o", "m", "e">>)
                      ELSE <<>>
        shopping == IF trans_type = TypeExpense
                    THEN NamedOfType(trans_type, <<"s", "h", "o", "p", "p", "i", "n", "g">>) ELSE <<>>
    IN  IF other # <<>> THEN other[1].id
        ELSE IF shopping # <<>> THEN shopping[1].id
        ELSE IF OfType(trans_type) # <<>> THEN OfType(trans_type)[1].id
        ELSE NoValue

\* The best score among the categories of the requested type.
BestOf(call) ==
    BestMatch(call.description \o <<" ">> \o call.account,
              OfType(call.trans_type), 1,
              [category_id |-> NoValue, confidence |-> ZeroScore])

\* C17: when no candidate scored or the best score is below the threshold, the
\* call returns the preferred fallback with confidence 0; otherwise it returns
\* the best-scoring category with its score.
C17_FallbackOrder ==
    \A call \in Calls :
        IF \/ BestOf(call).category_id = NoValue
           \/ BelowThreshold(BestOf(call).confidence, call.threshold)
        THEN /\ call.category_id = PreferredFallback(call.trans_type)
             /\ call.confidence = ZeroScore
        ELSE /\ call.category_id = BestOf(call).category_id
             /\ call.confidence = BestOf(call).confidence

\* C18: a category id a call returns belongs to a category of the requested
\* type.
C18_ReturnedCategoryHasRequestedType ==
    \A call \in Calls :
        call.category_id # NoValue =>
            \E k \in 1..Len(categories) :
                /\ categories[k].id = call.category_id
                /\ categories[k].type = call.trans_type

UnprocessableOf(response) ==
    IF response.returned = "validation" THEN response.unprocessable_transactions ELSE <<>>

MarkedIn(entries, tx) == \E k \in 1..Len(entries) : entries[k].tx = tx

\* The commit run at the boundary: an expense equal to the running balance
\* is successful and leaves 0; one exceeding it by one unit is failed and
\* leaves the running balance as it was.
BoundaryInCommit ==
    (Returned(W1) /\ storeErrors[W1] = {}) =>
        \A i \in 1..Len(transactions[W1]) :
            LET tx == transactions[W1][i]
            IN  /\ (tx.type = "expense" /\ tx.amount = RunningBefore(W1, i)) =>
                       /\ InList(results[W1].successful, i)
                       /\ RunningBefore(W1, i + 1) = 0
                /\ (tx.type = "expense" /\ tx.amount = RunningBefore(W1, i) + 1) =>
                       /\ InList(results[W1].failed, i)
                       /\ RunningBefore(W1, i + 1) = RunningBefore(W1, i)

\* The dry run at the boundary, for a batch without duplicates and without
\* already persisted transactions: the same expenses are marked processable
\* with projected balance 0, and unprocessable.
BoundaryInValidation ==
    (Returned(W1) /\ verify_response # NoResponse /\ storeErrors[W1] = {}
                 /\ CleanBatch(transactions[W1], initRows)) =>
        \A i \in 1..Len(transactions[W1]) :
            LET tx == transactions[W1][i]
            IN  /\ (tx.type = "expense" /\ tx.amount = RunningBefore(W1, i)) =>
                       \E k \in 1..Len(ProcessableOf(verify_response)) :
                           /\ ProcessableOf(verify_response)[k].tx = tx
                           /\ ProcessableOf(verify_response)[k].projected_balance = 0
                /\ (tx.type = "expense" /\ tx.amount = RunningBefore(W1, i) + 1) =>
                       MarkedIn(UnprocessableOf(verify_response), tx)

\* C21: the sufficiency check is inclusive at zero in validation and in
\* commit alike: an expense equal to the running balance is accepted and
\* leaves exactly 0, an expense one unit above it is rejected and leaves the
\* running balance unchanged.
C21_InclusiveAtZero == BoundaryInCommit /\ BoundaryInValidation

(***************************************************************************)
(* The order of the events of a commit run.                                *)
(***************************************************************************)
\* The run of w has read its starting balance and has not ended.
HasReadBalance(w) == pc[w] \in {"selected", "loop", "updated"}

\* C22: a commit run holds the exclusive lock on the balance row from before
\* it reads the starting balance until its COMMIT or ROLLBACK: at every point
\* between the read and the end of the run the lock is held by that run.
C22_LockHeldFromReadToEnd ==
    \A w \in Writers : HasReadBalance(w) => lockHolder = w

(***************************************************************************)
(* The running balance of a commit run.                                    *)
(***************************************************************************)
\* The check of position i against the running balance the claim names.
RejectedByRunning(w, i) ==
    LET tx == transactions[w][i]
    IN  tx.type = "expense" /\ RunningBefore(w, i) + Signed(tx) < 0

IsScenario5 == initBalance = Scenario5.balance /\ transactions[W1] = Scenario5.batch

\* C23: the running balance threads through the batch: the value transaction
\* N is checked against is the starting balance plus the signed amounts of
\* the successful transactions among 1..N-1, a rejected transaction leaves it
\* as it was and later transactions are still processed; scenario 5 ends with
\* running balances 50 and 250, a rejection, and a committed balance of 250.
C23_RunningBalanceThreads ==
    /\ pc[W1] \in {"loop", "updated", "done"} =>
           /\ current_balance[W1] = RunningBefore(W1, idx[W1])
           /\ \A i \in 1..(idx[W1] - 1) :
                  /\ InList(results[W1].successful, i) => ~RejectedByRunning(W1, i)
                  /\ RejectedByRunning(W1, i) <=>
                         \E k \in 1..Len(results[W1].failed) :
                             /\ results[W1].failed[k].index = i
                             /\ results[W1].failed[k].kind = "insufficient"
                             /\ results[W1].failed[k].available = RunningBefore(W1, i)
                  /\ storeErrors[W1] = {} =>
                         (InList(results[W1].successful, i) <=> ~RejectedByRunning(W1, i))
    /\ (Returned(W1) /\ results[W1].total_success > 0) =>
           balance = RunningBefore(W1, Len(transactions[W1]) + 1)
    /\ (Returned(W1) /\ IsScenario5 /\ storeErrors[W1] = {}) =>
           /\ RunningBefore(W1, 2) = 50
           /\ RunningBefore(W1, 3) = 250
           /\ RunningBefore(W1, 4) = 250
           /\ InList(results[W1].failed, 3)
           /\ balance = 250
           /\ results[W1].total_success = 2
           /\ results[W1].total_failed = 1

C23_Witness ==
    /\ Returned(W1)
    /\ IsScenario5
    /\ storeErrors[W1] = {}
    /\ results[W1].total_success = 2
    /\ balance = 250

(***************************************************************************)
(* The balance write of a commit run.                                      *)
(***************************************************************************)
\* A step in which the run of w writes the balance row inside its open unit.
BalanceWrite(w) == pendingBalance'[w] # pendingBalance[w] /\ pendingBalance'[w] # NoValue

\* A step in which the run of w inserts a row.
RowInsert(w) == Len(pendingRows'[w]) > Len(pendingRows[w])

LoopOver(w) == pc[w] = "loop" /\ idx[w] > Len(transactions[w])

\* C24: a commit run writes the balance at most once, and once when it
\* reaches COMMIT with a successful transaction: the write comes after the
\* last transaction was processed and before COMMIT, carries the final
\* running balance, and no write falls between the row inserts.
C24_BalanceWrittenOnceAfterLoop ==
    [][/\ BalanceWrite(W1) =>
              /\ pendingBalance[W1] = NoValue
              /\ LoopOver(W1)
              /\ results[W1].total_success > 0
              /\ pendingBalance'[W1] = RunningBefore(W1, Len(transactions[W1]) + 1)
              /\ pc'[W1] = "updated"
       /\ RowInsert(W1) =>
              /\ pc[W1] = "loop" /\ pc'[W1] = "loop"
              /\ pendingBalance[W1] = NoValue /\ pendingBalance'[W1] = NoValue
       /\ pc[W1] = "updated" => ~RowInsert(W1) /\ ~BalanceWrite(W1)
       /\ balance' # balance =>
              /\ pc[W1] = "updated" /\ pc'[W1] = "done"
              /\ balance' = pendingBalance[W1]
       /\ (pc[W1] # "done" /\ pc'[W1] = "done") =>
              IF results[W1].total_success > 0
              THEN pc[W1] = "updated" /\ pendingBalance[W1] # NoValue
                                      /\ balance' = pendingBalance[W1]
              ELSE pendingBalance[W1] = NoValue /\ balance' = balance
      ]_vars

\* The balance row written after a loop that inserted two rows and rejected
\* a transaction, not yet committed.
C24_Witness ==
    /\ pc[W1] = "updated"
    /\ Len(pendingRows[W1]) >= 2
    /\ results[W1].total_failed > 0
    /\ pendingBalance[W1] = current_balance[W1]
    /\ pendingBalance[W1] # user_info[W1]
    /\ balance = initBalance

(***************************************************************************)
(* What a concurrent reader sees: the committed rows and balance.          *)
(***************************************************************************)
\* A step in which the run of w ends: returns or raises.
RunEnds(w) == ~Ended(w) /\ pc'[w] \in {"done", "fatal"}

Commits(w) == RunEnds(w) /\ pc'[w] = "done" /\ results[w].total_success > 0

ManualExpenseCommits == epc = "locked" /\ epc' = "done"

FirstPosition(txs, tx) ==
    (CHOOSE i \in 1..Len(txs) :
        /\ SameKey(txs[i], tx)
        /\ \A j \in 1..(i - 1) : ~SameKey(txs[j], tx)) - 1

\* C26: every transaction in repeated carries, as duplicate_of, the position
\* in the batch of the first transaction with the same (date, amount,
\* description), whatever the number of distinct keys that repeat.
C26_DuplicateOfIsFirstPosition ==
    vresult.returned =>
        \A k \in 1..Len(vresult.repeated) :
            vresult.repeated[k].duplicate_of
                = FirstPosition(vbatch, vresult.repeated[k].tx)

(***************************************************************************)
(* Type and categorization account of a flushed transaction.               *)
(***************************************************************************)
\* The account text of the n-th posting line of the header at position h.
PostingAccount(text, h, n) == StrippedFields(PostingsAfter(text, h + 1)[n])[1]

IncomeMarker == <<"I", "n", "c", "o", "m", "e", ":">>

\* C27: an emitted transaction is an income exactly when the account of its
\* second posting contains "Income:", an expense otherwise, and its category
\* is the one of the second posting's account for an income and of the first
\* posting's account for an expense, whichever flush emitted it.
C27_TypeFromSecondPosting ==
    ppc = "returned" =>
        LET hs == Sorted(TwoPostingHeaders(lines))
        IN  /\ Len(ptransactions) = Len(hs)
            /\ \A k \in 1..Len(ptransactions) :
                   LET first == PostingAccount(lines, hs[k], 1)
                       second == PostingAccount(lines, hs[k], 2)
                       tx == ptransactions[k]
                   IN  /\ tx.type \in {"income", "expense"}
                       /\ tx.type = "income" <=> Contains(second, IncomeMarker)
                       /\ tx.type = "income" =>
                              tx.category_id = determine_category(second, "income")
                       /\ tx.type = "expense" =>
                              tx.category_id = determine_category(first, "expense")

\* An income flushed at the end of the input and an expense, with the income
\* account as its first posting, flushed by the next header.
C27_Witness ==
    /\ ppc = "returned"
    /\ Len(ptransactions) = 1
    /\ \/ /\ lines = <<HeaderGrocery, PostFood, PostSalary>>
          /\ ptransactions[1].type = "income"
          /\ ptransactions[1].category_id = 1
       \/ /\ lines = <<HeaderGrocery, PostSalary, PostFood, HeaderGrocery>>
          /\ ptransactions[1].type = "expense"
          /\ ptransactions[1].category_id = 9

(***************************************************************************)
(* The selection among the scored categories.                              *)
(***************************************************************************)
ScoreOf(call, cat) ==
    calculate_match_score(call.description \o <<" ">> \o call.account, cat.id)

\* Score a is higher than score b, as fractions.
Outscores(a, b) == a.num * b.den > b.num * a.den

\* The scores of the candidates, in the order of the candidates.
RECURSIVE ScoresFrom(_, _, _)
ScoresFrom(call, cands, k) ==
    IF k > Len(cands) THEN <<>>
    ELSE <<ScoreOf(call, cands[k])>> \o ScoresFrom(call, cands, k + 1)

\* The positions no other position outscores.
TopScored(scores) ==
    {k \in 1..Len(scores) : \A j \in 1..Len(scores) : ~Outscores(scores[j], scores[k])}

\* The best score is positive and not below the threshold: the selection,
\* not the fallback, decides what the call returns.
DecidedByScore(scores, threshold) ==
    \E k \in TopScored(scores) :
        /\ Outscores(scores[k], ZeroScore)
        /\ ~BelowThreshold(scores[k], threshold)

\* C28: a call decided by the scores returns a category of the requested
\* type that no other category of the type outscores, with that score, and
\* among several categories with that highest score the one with the
\* lowest id.
C28_HighestScoreLowestId ==
    \A call \in Calls :
        LET cands == OfType(call.trans_type)
            scores == ScoresFrom(call, cands, 1)
            top == TopScored(scores)
        IN  DecidedByScore(scores, call.threshold) =>
                /\ \E k \in top :
                       /\ cands[k].id = call.category_id
                       /\ scores[k] = call.confidence
                /\ \A k \in top : call.category_id <= cands[k].id

\* A call in which two categories tie for the highest score.
C28_Witness ==
    \E call \in Calls :
        LET scores == ScoresFrom(call, OfType(call.trans_type), 1)
        IN  /\ DecidedByScore(scores, call.threshold)
            /\ Cardinality(TopScored(scores)) = 2
            /\ call.threshold = DefaultThreshold
            /\ call.category_id = 2
            /\ call.confidence = [num |-> 10, den |-> 40]

(***************************************************************************)
(* The counters and the two lists of the results.                          *)
(***************************************************************************)
\* The number of transactions the loop has gone through.
Processed(w) == IF pc[w] \in {"loop", "updated", "done"} THEN idx[w] - 1 ELSE 0

InBatchOrder(entries) ==
    \A j, k \in 1..Len(entries) : j < k => entries[j].index < entries[k].index

MaxRows == 3

\* The amounts of the requests: a Decimal of either sign.
AccountAmounts == {0 - MaxAmount, 0 - 1, 1}

\* The row both handlers insert: date, description and amount as requested,
\* source 'manual', no type given.
ManualRow(amount) ==
    [user |-> Uploader, date |-> "2024-01-16", description |-> "rent",
     amount |-> amount, type |-> "unset", source |-> "manual"]

\* update_account_balance: START TRANSACTION, SELECT ... FOR UPDATE, category
\* check, new_balance < 0 check, INSERT, UPDATE current_balance + amount,
\* COMMIT.  The row lock is held from the read to the COMMIT.
UpdateAccountBalance ==
    /\ Len(txrows) < MaxRows
    /\ lockHolder = NoLock
    /\ \E amount \in AccountAmounts, valid_category \in BOOLEAN :
           LET new_balance == balance + amount
           IN  IF ~valid_category \/ new_balance < 0
               THEN UNCHANGED <<balance, txrows>>
               ELSE /\ txrows' = Append(txrows, ManualRow(amount))
                    /\ balance' = balance + amount
    /\ UNCHANGED <<lockHolder, parsed, pc, transactions, user_info, current_balance,
                   idx, results, pendingRows, pendingBalance, storeErrors,
                   verify_response, initBalance, initRows>>
    /\ UNCHANGED <<expenseVars, validVars, parseVars, matchVars>>

\* create_transaction: the account and the category are looked up, then
\* START TRANSACTION, INSERT, update_bank_balance (current_balance + amount),
\* COMMIT.  The balance is not read and not checked.
CreateTransaction ==
    /\ Len(txrows) < MaxRows
    /\ lockHolder = NoLock
    /\ \E amount \in AccountAmounts, found \in BOOLEAN :
           IF ~found
           THEN UNCHANGED <<balance, txrows>>
           ELSE /\ txrows' = Append(txrows, ManualRow(amount))
                /\ balance' = balance + amount
    /\ UNCHANGED <<lockHolder, parsed, pc, transactions, user_info, current_balance,
                   idx, results, pendingRows, pendingBalance, storeErrors,
                   verify_response, initBalance, initRows>>
    /\ UNCHANGED <<expenseVars, validVars, parseVars, matchVars>>

InitAccount ==
    /\ balance \in 0..MaxBalance
    /\ txrows = <<>>
    /\ \E b \in ConcBatches :
           parsed = [w \in Writers |-> IF w = "w1" THEN b ELSE <<>>]
    /\ InitWriters
    /\ initBalance = balance
    /\ initRows = txrows
    /\ InitParser
    /\ InitMatcher
    /\ InitExpense
    /\ expense \in 1..MaxAmount
    /\ InitValidator
    /\ vbatch = <<>>

NextAccount ==
    \/ UploadLedgerFile("w1")
    \/ SelectUserInfo("w1")
    \/ StartTransaction("w1")
    \/ ProcessTx("w1")
    \/ UpdateBalance("w1")
    \/ Commit("w1")
    \/ Rollback("w1")
    \/ ExpenseSelectForUpdate
    \/ ExpenseInsertUpdateCommit
    \/ UpdateAccountBalance
    \/ CreateTransaction

SpecAccount == InitAccount /\ [][NextAccount]_vars

RECURSIVE SumAmounts(_)
SumAmounts(rows) == IF rows = <<>> THEN 0 ELSE rows[1].amount + SumAmounts(Tail(rows))

\* C30: from a balance that is not negative, the persisted balance never
\* becomes negative under any sequence of batch commits, manual expenses,
\* balance updates and manual transactions, and it moves by exactly the
\* signed amounts of the rows these operations insert.
C30_BalanceNeverNegative ==
    /\ balance >= 0
    /\ balance = initBalance + SumAmounts(txrows)

=============================================================================
